---- MODULE Spec2Model ----
(***************************************************************************)
(* State-machine model of the nanobot Antigravity provider:                *)
(*   - the retry / endpoint-failover loop of AntigravityProvider           *)
(*     (_request_with_retry) and the chat() wrapper around it,             *)
(*   - the credential store AntigravityAuthManager (get_valid_token,       *)
(*     _refresh, login, switch, logout, _load, _save),                     *)
(*   - the schema translator messages_to_gemini,                           *)
(*   - stream_chat, _resolve_model and _build_request_body,                *)
(*   - login() with its local callback server,                             *)
(*   - the metrics collector (MetricsCollector._append and _read),         *)
(*   - the cron callback of the gateway and the cron / auth commands.      *)
(* Each part has its own specification; the variables of the other parts   *)
(* keep their initial values under it.                                     *)
(***************************************************************************)
EXTENDS Integers, Sequences, FiniteSets, TLC

VARIABLES
    \* ---- provider: _request_with_retry ----
    endpoint,      \* self._endpoint, the configured endpoint
    server,        \* the replies the content endpoints can give in this run
    rpc,           \* position in _request_with_retry: "idle" | "loop" | "returned" | "raised"
    epIdx,         \* index of the current endpoint in _get_endpoints() (1-based)
    attempt,       \* the inner loop's attempt counter (0-based)
    lastError,     \* last_error
    log,           \* what the loop did, in order: POST and SLEEP events
    response,      \* the response _request_with_retry returned
    raised,        \* the exception _request_with_retry raised
    \* ---- provider: chat ----
    cpc,           \* position in chat()
    projectId,     \* self._provided_project_id
    projectCache,  \* self._project_id_cache
    discoveryPosts,\* loadCodeAssist requests sent, in order
    requestBody,   \* the body _build_request_body returned
    chatResult,    \* the LLMResponse chat() returned
    chatRaised,    \* the exception that left chat()
    \* ---- credential store ----
    accounts,      \* self._accounts, in insertion order
    activeEmail,   \* self._active_email
    credFile,      \* credentials.json on disk
    now,           \* time.time()
    issued,        \* tokens the token endpoint has issued so far
    tokenPosts,    \* refresh_token grants POSTed to TOKEN_URL
    caller,        \* the concurrent get_valid_token calls
    opLog,         \* the last store operation and what it saw
    \* ---- schema translator ----
    messages,      \* the input of messages_to_gemini
    xpc,           \* "input" | "done"
    contents,      \* the contents list it returned
    systemInstruction,
    \* ---- metrics collector ----
    metricsFiles,  \* the JSONL files on disk, each a sequence of written chunks
    events,        \* the record_* calls made so far, in order
    writer,        \* the concurrent record_* calls
    readResult,    \* what the last _read call returned
    \* ---- login: the local callback server ----
    loginFlow,     \* the login() call under way: auth_code, error, what it handled
    \* ---- command line and gateway ----
    cronJobs,      \* the jobs of the cron store (cron/jobs.json)
    cli,           \* the last command run, its exit status and what it found
    agentCalls,    \* the agent.process_direct calls of the gateway, in order
    outbound,      \* the messages published to the bus, in order
    \* ---- provider: the arguments of a call ----
    callArgs,      \* the model and max_tokens chat() / stream_chat() was given
    \* ---- provider: the SSE loop of stream_chat ----
    sse            \* the lines of the response body, how many were read, the chunks yielded

providerVars == <<endpoint, server, rpc, epIdx, attempt, lastError, log, response, raised>>
chatVars     ==
    <<cpc, projectId, projectCache, discoveryPosts, requestBody, chatResult, chatRaised>>
storeVars    == <<accounts, activeEmail, credFile, now, issued, tokenPosts, caller, opLog>>
xformVars    == <<messages, xpc, contents, systemInstruction>>
metricsVars  == <<metricsFiles, events, writer, readResult>>
cliVars      == <<cronJobs, cli, agentCalls, outbound>>
toolVars     == <<metricsVars, loginFlow, cliVars, callArgs, sse>>
vars         == <<providerVars, chatVars, storeVars, xformVars, toolVars>>

None == "None"

----------------------------------------------------------------------------
(* constants.py *)

API_ENDPOINT_DAILY    == "daily"
API_ENDPOINT_AUTOPUSH == "autopush"
API_ENDPOINT_PROD     == "prod"
DEFAULT_API_ENDPOINT  == API_ENDPOINT_PROD
\* A variant order: production first.
FallbacksProdFirst ==
    <<API_ENDPOINT_PROD, API_ENDPOINT_DAILY, API_ENDPOINT_AUTOPUSH>>

API_ENDPOINT_FALLBACKS ==
    <<API_ENDPOINT_DAILY, API_ENDPOINT_AUTOPUSH, API_ENDPOINT_PROD>>

\* Variants of the two status sets, against which the properties are tried
FallbackOnNotFoundOnly    == {404}
RetryableWithFallbackCodes == {403, 404, 429, 500, 503}

\* Variants: only throttling is retried; client errors fall back too.
RetryableThrottleOnly    == {429}
FallbackWithClientErrors == {400, 401, 403, 404}

RETRYABLE_STATUS_CODES == {429, 500, 503}
FALLBACK_STATUS_CODES  == {403, 404}

\* A variant: only a refused connection is caught.
ConnectErrorOnly == {"ConnectError"}

\* except (httpx.ConnectError, httpx.ConnectTimeout)
CONNECTION_ERRORS == {"ConnectError", "ConnectTimeout"}
MAX_RETRIES      == 3
RETRY_BASE_DELAY == 1
RETRY_AFTER_CAP  == 60

\* An endpoint that is none of the three known ones.
CustomEndpoint == "custom"

----------------------------------------------------------------------------
(* Sequence helpers *)

Range(s) == {s[i] : i \in DOMAIN s}

RECURSIVE Pow2(_)
Pow2(n) == IF n = 0 THEN 1 ELSE 2 * Pow2(n - 1)

Min(a, b) == IF a <= b THEN a ELSE b

\* [x for x in s if Keep(x)]
RECURSIVE FilterSeq(_, _)
FilterSeq(s, keep) ==
    IF s = <<>> THEN <<>>
    ELSE (IF Head(s) \in keep THEN <<Head(s)>> ELSE <<>>) \o FilterSeq(Tail(s), keep)

----------------------------------------------------------------------------
(* provider.py: the retry / failover loop *)

\* _get_endpoints: the configured endpoint first, then the other known
\* endpoints in their order; a custom endpoint has no fallback.
GetEndpoints(ep) ==
    IF ep \in Range(API_ENDPOINT_FALLBACKS)
    THEN <<ep>> \o FilterSeq(API_ENDPOINT_FALLBACKS,
                             Range(API_ENDPOINT_FALLBACKS) \ {ep})
    ELSE <<ep>>

\* The Retry-After header of a response: absent, a number of seconds, or a
\* value float() rejects (an HTTP date).
NoHeader   == [kind |-> "absent", secs |-> 0]
BadHeader  == [kind |-> "http-date", secs |-> 0]
Seconds(n) == [kind |-> "seconds", secs |-> n]

\* A variant of the backoff that starts one doubling late
GetRetryDelayLate(retryAfter, att) ==
    IF retryAfter.kind = "seconds"
    THEN (IF retryAfter.secs <= 60 THEN retryAfter.secs ELSE 60)
    ELSE 2 * Pow2(att)

\* _get_retry_delay
GetRetryDelay(retryAfter, att) ==
    IF retryAfter.kind = "seconds"
    THEN Min(retryAfter.secs, RETRY_AFTER_CAP)
    ELSE RETRY_BASE_DELAY * Pow2(att)

\* httpx.Response.is_success, which raise_for_status tests
\* A variant: everything below 500 counts as success.
IsBelow500(status) == status >= 200 /\ status <= 499

IsSuccess(status) == status >= 200 /\ status <= 299

\* What one client.post can do: answer with a status (and a Retry-After
\* header), or fail with an httpx exception.
HttpReply(status, ra) == [kind |-> "http", status |-> status, retryAfter |-> ra]
ExcReply(exc)         == [kind |-> exc, status |-> 0, retryAfter |-> NoHeader]

\* The servers a run is checked against: each is the set of replies its
\* endpoints may give to a POST, in any order and on any endpoint.
ServerProfiles ==
    { {HttpReply(200, NoHeader), HttpReply(400, NoHeader), HttpReply(403, NoHeader),
       HttpReply(404, NoHeader), HttpReply(429, NoHeader), HttpReply(503, NoHeader),
       ExcReply("ConnectError")},
      {HttpReply(200, NoHeader), HttpReply(404, NoHeader), HttpReply(429, NoHeader),
       HttpReply(429, Seconds(5)), HttpReply(429, Seconds(90)), ExcReply("ReadTimeout")},
      {HttpReply(200, NoHeader), HttpReply(401, NoHeader), HttpReply(403, NoHeader),
       HttpReply(500, NoHeader), HttpReply(429, BadHeader), ExcReply("ConnectTimeout")} }

AllReplies == UNION ServerProfiles

NoError == [kind |-> None, status |-> 0, ep |-> None]
HTTPStatusError(status, ep) == [kind |-> "HTTPStatusError", status |-> status, ep |-> ep]
TransportError(exc, ep)     == [kind |-> exc, status |-> 0, ep |-> ep]

\* The API paths
GENERATE_CONTENT_PATH        == "/v1internal:generateContent"
STREAM_GENERATE_CONTENT_PATH == "/v1internal:streamGenerateContent"
LOAD_CODE_ASSIST_PATH        == "/v1internal:loadCodeAssist"

\* A variant of the content headers that is the full header set
FullHeaders == {"Content-Type", "User-Agent", "X-Goog-Api-Client", "Client-Metadata"}

\* The names of the headers a request is given.  DEFAULT_HEADERS is the
\* full set; get_content_request_headers() gives the User-Agent only.
DEFAULT_HEADERS == {"Content-Type", "User-Agent", "X-Goog-Api-Client", "Client-Metadata"}
GetContentRequestHeaders == {"User-Agent"}

\* The headers of the three kinds of request
ChatHeaders      == GetContentRequestHeaders \cup {"Authorization"}
StreamHeaders    == GetContentRequestHeaders \cup {"Authorization", "Accept"}
DiscoveryHeaders == DEFAULT_HEADERS \cup {"Authorization"}

PostEvent(ep, att, reply) ==
    [op |-> "POST", ep |-> ep, path |-> GENERATE_CONTENT_PATH, headers |-> ChatHeaders,
     project |-> requestBody.project, attempt |-> att, reply |-> reply, delay |-> 0]
SleepEvent(ep, att, d) ==
    [op |-> "SLEEP", ep |-> ep, path |-> None, headers |-> {},
     project |-> None, attempt |-> att, reply |-> ExcReply(None), delay |-> d]
\* The one POST of stream_chat
StreamEvent(ep, reply) ==
    [op |-> "POST", ep |-> ep, path |-> STREAM_GENERATE_CONTENT_PATH,
     headers |-> StreamHeaders, project |-> requestBody.project, attempt |-> 0,
     reply |-> reply, delay |-> 0]

Endpoints == GetEndpoints(endpoint)

\* Leaving the inner loop (break, or the range running out): the next
\* endpoint, or the end of the outer loop, where last_error is raised.
NextEndpoint(err) ==
    /\ lastError' = err
    /\ attempt' = 0
    /\ UNCHANGED response
    /\ IF epIdx < Len(Endpoints)
       THEN /\ epIdx' = epIdx + 1
            /\ rpc' = "loop"
            /\ raised' = raised
       ELSE /\ epIdx' = epIdx
            /\ rpc' = "raised"
            /\ raised' = IF err.kind # None THEN err
                         ELSE [kind |-> "RuntimeError", status |-> 0, ep |-> None]

\* One iteration of the inner loop: the POST, the handling of its outcome and
\* the backoff sleep when there is one.
RequestAttempt(reply) ==
    /\ rpc = "loop"
    /\ reply \in server
    /\ LET ep == Endpoints[epIdx]
           post == PostEvent(ep, attempt, reply)
       IN
       IF reply.kind \in CONNECTION_ERRORS
       THEN \* except (ConnectError, ConnectTimeout): break
            /\ log' = Append(log, post)
            /\ NextEndpoint(TransportError(reply.kind, ep))
       ELSE IF reply.kind # "http"
       THEN \* any other exception of client.post leaves the method
            /\ log' = Append(log, post)
            /\ rpc' = "raised"
            /\ raised' = TransportError(reply.kind, ep)
            /\ UNCHANGED <<epIdx, attempt, lastError, response>>
       ELSE IF reply.status \notin RETRYABLE_STATUS_CODES
       THEN IF reply.status \in FALLBACK_STATUS_CODES
            THEN /\ log' = Append(log, post)
                 /\ NextEndpoint(HTTPStatusError(reply.status, ep))
            ELSE IF IsSuccess(reply.status)
            THEN /\ log' = Append(log, post)
                 /\ rpc' = "returned"
                 /\ response' = [status |-> reply.status, ep |-> ep, body |-> None]
                 /\ UNCHANGED <<epIdx, attempt, lastError, raised>>
            ELSE \* response.raise_for_status()
                 /\ log' = Append(log, post)
                 /\ rpc' = "raised"
                 /\ raised' = HTTPStatusError(reply.status, ep)
                 /\ UNCHANGED <<epIdx, attempt, lastError, response>>
       ELSE IF attempt < MAX_RETRIES - 1
       THEN /\ log' = log \o <<post, SleepEvent(ep, attempt,
                                    GetRetryDelay(reply.retryAfter, attempt))>>
            /\ lastError' = HTTPStatusError(reply.status, ep)
            /\ attempt' = attempt + 1
            /\ UNCHANGED <<epIdx, rpc, response, raised>>
       ELSE /\ log' = Append(log, post)
            /\ NextEndpoint(HTTPStatusError(reply.status, ep))
    /\ UNCHANGED <<endpoint, server>>

----------------------------------------------------------------------------
(* auth.py: the credential store *)

EXPIRY_BUFFER      == 300
DEFAULT_EXPIRES_IN == 3600
FILE_MODE          == "0600"

\* self._accounts is a dict: a sequence of entries in insertion order, one
\* per key.  An entry holds the key and the AntigravityCredentials fields.
\* Tokens are numbers; 0 is the empty string.
Credentials(key, at, rt, exp, email) ==
    [key |-> key, access_token |-> at, refresh_token |-> rt,
     expires_at |-> exp, email |-> email]

NoCreds == Credentials(None, 0, 0, 0, None)

HasKey(accts, k)  == \E i \in DOMAIN accts : accts[i].key = k
IndexOf(accts, k) == CHOOSE i \in DOMAIN accts : accts[i].key = k
Keys(accts)       == [i \in DOMAIN accts |-> accts[i].key]

\* dict.get(k): None when the key is missing
DictGet(accts, k) == IF HasKey(accts, k) THEN accts[IndexOf(accts, k)] ELSE NoCreds

\* d[k] = c: an existing key keeps its place, a new key goes last
DictSet(accts, k, c) ==
    IF HasKey(accts, k) THEN [accts EXCEPT ![IndexOf(accts, k)] = c]
    ELSE Append(accts, c)

\* d.pop(k, None)
RECURSIVE DictPop(_, _)
DictPop(accts, k) ==
    IF accts = <<>> THEN <<>>
    ELSE (IF Head(accts).key = k THEN <<>> ELSE <<Head(accts)>>) \o DictPop(Tail(accts), k)

\* next(iter(d), "")
FirstKey(accts) == IF accts = <<>> THEN "" ELSE accts[1].key

\* A variant of the expiry test without the boundary
IsExpiredStrictly(creds, t) == t > creds.expires_at - 300

\* AntigravityCredentials.is_expired, at time t
IsExpired(creds, t) == t >= creds.expires_at - EXPIRY_BUFFER

\* The properties of AntigravityAuthManager
IsAuthenticated   == activeEmail # "" /\ HasKey(accounts, activeEmail)
Email             == IF IsAuthenticated THEN activeEmail ELSE ""
ActiveCredentials == DictGet(accounts, activeEmail)

\* credentials.json
NoFile == [exists |-> FALSE, mode |-> "", active |-> "", accounts |-> <<>>]

\* A variant of _save that sets the mode only of a file it creates
SaveKeepingMode(active, accts) ==
    [exists |-> TRUE, mode |-> (IF credFile.exists THEN credFile.mode ELSE "0600"),
     active |-> active, accounts |-> accts]

\* A variant of _save that writes the active account only
SaveActiveOnly(active, accts) ==
    [exists |-> TRUE, mode |-> "0600", active |-> active,
     accounts |-> SelectSeq(accts, LAMBDA c : c.key = active)]

\* _save: the file is written in the multi-account format and chmod-ed
Save(active, accts) ==
    [exists |-> TRUE, mode |-> FILE_MODE, active |-> active, accounts |-> accts]

\* A file in the legacy format: the flat dict of one credential, with no
\* "accounts" and no "active" key; the credential has no key yet.
LegacyFile(mode, creds) ==
    [exists |-> TRUE, mode |-> mode, active |-> None,
     accounts |-> <<[creds EXCEPT !.key = None]>>]
IsLegacy(file) == file.exists /\ file.active = None

\* The store as one value: memory and file
Store == [accounts |-> accounts, active |-> activeEmail, file |-> credFile]

\* ---- get_valid_token / _refresh ----

\* The replies of the token endpoint to a refresh_token grant.
RefreshOk(hasRefresh, hasExpiresIn, expiresIn) ==
    [kind |-> "ok", status |-> 200, hasRefresh |-> hasRefresh,
     hasExpiresIn |-> hasExpiresIn, expiresIn |-> expiresIn]
RefreshHttpError(status) ==
    [kind |-> "HTTPStatusError", status |-> status, hasRefresh |-> FALSE,
     hasExpiresIn |-> FALSE, expiresIn |-> 0]
RefreshNoAccessToken ==
    [kind |-> "KeyError", status |-> 200, hasRefresh |-> FALSE,
     hasExpiresIn |-> FALSE, expiresIn |-> 0]

\* A 2xx reply whose expires_in is not a number: the addition raises
RefreshBadExpiresIn ==
    [kind |-> "TypeError", status |-> 200, hasRefresh |-> FALSE,
     hasExpiresIn |-> TRUE, expiresIn |-> 0]
NoReply ==
    [kind |-> None, status |-> 0, hasRefresh |-> FALSE,
     hasExpiresIn |-> FALSE, expiresIn |-> 0]

RefreshReplies ==
    {RefreshOk(r, FALSE, 0) : r \in BOOLEAN}
    \cup {RefreshOk(FALSE, TRUE, EXPIRY_BUFFER), RefreshHttpError(400),
          RefreshNoAccessToken, RefreshBadExpiresIn}

EmptyStore == [accounts |-> <<>>, active |-> "", file |-> NoFile]

NoOp == [op |-> None, arg |-> None, result |-> None, pre |-> EmptyStore, prePosts |-> 0]

\* A get_valid_token call: where it is, what it returned or raised, the
\* credential object it holds (by its key), when and on what it was made, and
\* what the token endpoint answered.
IdleCaller ==
    [pc |-> "idle", ret |-> 0, exc |-> None, key |-> None, at |-> 0,
     preCreds |-> NoCreds, prePosts |-> 0, reply |-> NoReply]

Callers == DOMAIN caller

\* No get_valid_token call is under way or waits for its result to be taken
Quiescent == \A c \in Callers : caller[c].pc = "idle"

\* The record a store operation leaves: what it was, its argument and result,
\* and the store and the number of refresh requests as they were before it.
OpRecord(op, arg, result) ==
    [op |-> op, arg |-> arg, result |-> result, pre |-> Store,
     prePosts |-> Len(tokenPosts)]

\* A call as it starts: the time, the credential it finds active and the
\* refresh requests sent so far
Called(c) ==
    [caller[c] EXCEPT !.at = now, !.preCreds = ActiveCredentials,
                      !.prePosts = Len(tokenPosts)]

\* A variant of the path that hands out whatever token field it finds
TokenDecisionUnchecked(creds, t) ==
    IF creds = NoCreds \/ ~IsExpired(creds, t) THEN "valid"
    ELSE IF creds.refresh_token = 0 THEN "no-refresh-token"
    ELSE "refresh"

\* The path get_valid_token takes for the active credential at time t
TokenDecision(creds, t) ==
    IF creds = NoCreds THEN "not-authenticated"
    ELSE IF ~IsExpired(creds, t) THEN "valid"
    ELSE IF creds.refresh_token = 0 THEN "no-refresh-token"
    ELSE "refresh"

\* get_valid_token up to its first suspension: the checks, and for an expired
\* credential _refresh up to the POST to the token endpoint.
GetValidTokenCall(c) ==
    /\ c \in Callers
    /\ caller[c].pc = "idle"
    /\ LET creds == ActiveCredentials
           decision == TokenDecision(creds, now)
       IN
       IF decision = "not-authenticated"
       THEN /\ caller' = [caller EXCEPT ![c] =
                            [Called(c) EXCEPT !.pc = "raised", !.exc = "RuntimeError"]]
            /\ UNCHANGED tokenPosts
       ELSE IF decision = "valid"
       THEN /\ caller' = [caller EXCEPT ![c] =
                            [Called(c) EXCEPT !.pc = "returned",
                                              !.ret = creds.access_token,
                                              !.key = creds.key]]
            /\ UNCHANGED tokenPosts
       ELSE IF decision = "no-refresh-token"
       THEN /\ caller' = [caller EXCEPT ![c] =
                            [Called(c) EXCEPT !.pc = "raised", !.exc = "RuntimeError",
                                              !.key = creds.key]]
            /\ UNCHANGED tokenPosts
       ELSE /\ caller' = [caller EXCEPT ![c] =
                            [Called(c) EXCEPT !.pc = "posting", !.key = creds.key]]
            /\ tokenPosts' = Append(tokenPosts,
                                [by |-> c, grant_type |-> "refresh_token",
                                 refresh_token |-> creds.refresh_token])
    /\ opLog' = OpRecord("get_valid_token", None, None)
    /\ UNCHANGED <<accounts, activeEmail, credFile, now, issued>>

\* The fields _refresh assigns to the credential it holds
Refreshed(creds, reply, at, t) ==
    [creds EXCEPT
        !.access_token  = at,
        !.expires_at    = t + (IF reply.hasExpiresIn THEN reply.expiresIn
                               ELSE DEFAULT_EXPIRES_IN),
        !.refresh_token = IF reply.hasRefresh THEN at ELSE @]

\* The rest of _refresh and of get_valid_token, once the token endpoint has
\* answered: raise_for_status, the assignments, _save, the return.
GetValidTokenReply(c, reply) ==
    /\ c \in Callers
    /\ caller[c].pc = "posting"
    /\ LET old == DictGet(accounts, caller[c].key) IN
       IF reply.kind = "ok"
       THEN LET new == Refreshed(old, reply, issued + 1, now)
            IN /\ issued' = issued + 1
               /\ accounts' = DictSet(accounts, caller[c].key, new)
               /\ credFile' = Save(activeEmail, accounts')
               /\ caller' = [caller EXCEPT ![c] =
                               [@ EXCEPT !.pc = "returned", !.ret = new.access_token,
                                         !.reply = reply]]
       ELSE IF reply.kind = "TypeError"
       THEN \* access_token is assigned before expires_at is computed
            /\ issued' = issued + 1
            /\ accounts' = DictSet(accounts, caller[c].key,
                                   [old EXCEPT !.access_token = issued + 1])
            /\ caller' = [caller EXCEPT ![c] =
                            [@ EXCEPT !.pc = "raised", !.exc = reply.kind,
                                      !.reply = reply]]
            /\ UNCHANGED credFile
       ELSE /\ caller' = [caller EXCEPT ![c] =
                            [@ EXCEPT !.pc = "raised", !.exc = reply.kind,
                                      !.reply = reply]]
            /\ UNCHANGED <<accounts, credFile, issued>>
    /\ UNCHANGED <<activeEmail, now, tokenPosts, opLog>>

\* ---- login, switch, logout, _load ----

\* login(), when the callback, the code exchange and the rest succeed: the
\* token reply may lack refresh_token and expires_in, and the userinfo lookup
\* gives the email, or "" when it fails.
Login(email, hasRefresh, hasExpiresIn, expiresIn) ==
    /\ Quiescent
    /\ LET at == issued + 1
           creds == Credentials(email, at, IF hasRefresh THEN at ELSE 0,
                                now + (IF hasExpiresIn THEN expiresIn
                                       ELSE DEFAULT_EXPIRES_IN),
                                email)
       IN /\ issued' = at
          /\ accounts' = DictSet(accounts, email, creds)
          /\ activeEmail' = email
          /\ credFile' = Save(activeEmail', accounts')
          /\ opLog' = OpRecord("login", email, "returned")
    /\ UNCHANGED <<now, tokenPosts, caller>>

\* login(), when the callback carries an error or a wrong state, no code
\* arrives, or the code exchange fails: it raises before it stores anything.
LoginFails ==
    /\ Quiescent
    /\ opLog' = OpRecord("login", None, "raised")
    /\ UNCHANGED <<accounts, activeEmail, credFile, now, issued, tokenPosts, caller>>

\* ---- login: the local callback server ----

\* The query of a GET on the callback port, as parse_qs gives it: None for
\* a parameter that is absent
Query(error, state, code) == [error |-> error, state |-> state, code |-> code]

NoLogin ==
    [pc |-> "idle", state |-> None, authCode |-> None, error |-> None,
     queries |-> <<>>, exchanges |-> 0, pre |-> EmptyStore]

\* A variant of the handler that does not compare the state
DoGetAnyState(flow, query) ==
    IF query.error # None
    THEN [flow EXCEPT !.error = query.error]
    ELSE [flow EXCEPT !.authCode = query.code]

\* _Handler.do_GET: what it assigns to auth_code and error
DoGet(flow, query) ==
    IF query.error # None
    THEN [flow EXCEPT !.error = query.error]
    ELSE IF query.state # flow.state
    THEN [flow EXCEPT !.error = "State mismatch"]
    ELSE [flow EXCEPT !.authCode = query.code]

\* The test of the while loop around server.handle_request()
LoginWaits(flow) == flow.authCode = None /\ flow.error = None

\* login() up to the first handle_request: verifier, state, the server on
\* the callback port with its 120 s timeout, the browser
LoginStart(state) ==
    /\ Quiescent
    /\ loginFlow.pc \in {"idle", "returned", "raised"}
    /\ loginFlow' = [NoLogin EXCEPT !.pc = "waiting", !.state = state, !.pre = Store]
    /\ UNCHANGED storeVars

\* server.handle_request() handles one GET and returns
HandleRequest(query) ==
    /\ loginFlow.pc = "waiting"
    /\ loginFlow' = [DoGet(loginFlow, query) EXCEPT !.queries = Append(@, query),
                                                    !.pc = "test"]
    /\ UNCHANGED storeVars

\* server.handle_request() returns after 120 s without a request:
\* handle_timeout does nothing
LoginTimeout ==
    /\ loginFlow.pc = "waiting"
    /\ loginFlow' = [loginFlow EXCEPT !.pc = "test"]
    /\ UNCHANGED storeVars

\* handle_request has returned: the loop test; the next handle_request, or
\* server_close()
LoginLoopTest ==
    /\ loginFlow.pc = "test"
    /\ loginFlow' = [loginFlow EXCEPT !.pc = IF LoginWaits(loginFlow) THEN "waiting"
                                             ELSE "closed"]
    /\ UNCHANGED storeVars

\* login() after server_close(): it raises on an error or without a code,
\* else it exchanges the code, asks for the email and stores the credential
LoginFinish(exchangeOk, email, hasRefresh) ==
    /\ loginFlow.pc = "closed"
    /\ IF loginFlow.error \notin {None, ""} \/ loginFlow.authCode \in {None, ""}
       THEN /\ LoginFails
            /\ loginFlow' = [loginFlow EXCEPT !.pc = "raised"]
       ELSE IF ~exchangeOk
       THEN /\ LoginFails
            /\ loginFlow' = [loginFlow EXCEPT !.pc = "raised", !.exchanges = @ + 1]
       ELSE /\ Login(email, hasRefresh, FALSE, 0)
            /\ loginFlow' = [loginFlow EXCEPT !.pc = "returned", !.exchanges = @ + 1]

\* switch(email)
\* A variant of switch without the membership test
SwitchUnchecked(email) ==
    /\ Quiescent
    /\ activeEmail' = email
    /\ credFile' = [exists |-> TRUE, mode |-> "0600", active |-> email,
                    accounts |-> accounts]
    /\ opLog' = [op |-> "switch", arg |-> email,
                 result |-> IF \E i \in DOMAIN accounts : accounts[i].key = email
                            THEN "True" ELSE "False",
                 pre |-> [accounts |-> accounts, active |-> activeEmail, file |-> credFile],
                 prePosts |-> Len(tokenPosts)]
    /\ UNCHANGED <<accounts, now, issued, tokenPosts, caller>>

Switch(email) ==
    /\ Quiescent
    /\ IF ~HasKey(accounts, email)
       THEN /\ opLog' = OpRecord("switch", email, "False")
            /\ UNCHANGED <<activeEmail, credFile>>
       ELSE /\ activeEmail' = email
            /\ credFile' = Save(email, accounts)
            /\ opLog' = OpRecord("switch", email, "True")
    /\ UNCHANGED <<accounts, now, issued, tokenPosts, caller>>

\* The accounts and the active email logout(arg) leaves in memory; arg is
\* None, "*" or an email.
LogoutAccounts(accts, active, arg) ==
    IF arg = "*" THEN <<>>
    ELSE IF arg \notin {None, ""} THEN DictPop(accts, arg)
    ELSE IF active # "" THEN DictPop(accts, active)
    ELSE accts

LogoutActive(accts, active, arg) ==
    IF arg = "*" THEN ""
    ELSE IF arg \notin {None, ""}
    THEN (IF active = arg THEN FirstKey(DictPop(accts, arg)) ELSE active)
    ELSE IF active # "" THEN FirstKey(DictPop(accts, active))
    ELSE active

\* logout(arg)
Logout(arg) ==
    /\ Quiescent
    /\ accounts' = LogoutAccounts(accounts, activeEmail, arg)
    /\ activeEmail' = LogoutActive(accounts, activeEmail, arg)
    /\ credFile' = IF accounts' # <<>> THEN Save(activeEmail', accounts')
                   ELSE NoFile
    /\ opLog' = OpRecord("logout", arg, "returned")
    /\ UNCHANGED <<now, issued, tokenPosts, caller>>

\* _load of a legacy file: the credential goes under its email, or under
\* "unknown" when it has none
MigratedEmail(creds) == IF creds.email # "" THEN creds.email ELSE "unknown"
Migrated(creds) == <<[creds EXCEPT !.key = MigratedEmail(creds)]>>

\* A new AntigravityAuthManager: __init__ and _load.  A file in the
\* multi-account format is read; a legacy file is migrated and saved.
Reload ==
    /\ Quiescent
    /\ IF ~credFile.exists
       THEN /\ accounts' = <<>>
            /\ activeEmail' = ""
            /\ UNCHANGED credFile
       ELSE IF IsLegacy(credFile)
       THEN /\ accounts' = Migrated(credFile.accounts[1])
            /\ activeEmail' = MigratedEmail(credFile.accounts[1])
            /\ credFile' = Save(activeEmail', accounts')
       ELSE /\ accounts' = credFile.accounts
            /\ activeEmail' = credFile.active
            /\ UNCHANGED credFile
    /\ caller' = [c \in Callers |-> IdleCaller]
    /\ opLog' = OpRecord("load", None, "returned")
    /\ UNCHANGED <<now, issued, tokenPosts>>

\* An older nanobot wrote its single-credential file where none was
OlderVersionWrites(mode, email, hasRefresh) ==
    /\ Quiescent
    /\ ~credFile.exists
    /\ LET at == issued + 1 IN
       /\ issued' = at
       /\ credFile' = LegacyFile(mode, Credentials(None, at, IF hasRefresh THEN at ELSE 0,
                                                   now + DEFAULT_EXPIRES_IN, email))
    /\ opLog' = OpRecord("external-write", None, None)
    /\ UNCHANGED <<accounts, activeEmail, now, tokenPosts, caller>>

\* time.time() moves on
Tick(d) ==
    /\ now' = now + d
    /\ UNCHANGED <<accounts, activeEmail, credFile, issued, tokenPosts, caller, opLog>>

\* The caller takes its result; the next call can start
CallerDone(c) ==
    /\ c \in Callers
    /\ caller[c].pc \in {"returned", "raised"}
    /\ caller' = [caller EXCEPT ![c] = IdleCaller]
    /\ UNCHANGED <<accounts, activeEmail, credFile, now, issued, tokenPosts, opLog>>

----------------------------------------------------------------------------
(* provider.py: chat and _ensure_project_id *)

DEFAULT_PROJECT_ID == "rising-fact-p41fc"

\* The classes `except Exception` catches, among those the calls of chat()
\* raise
ExceptionClasses ==
    {"HTTPStatusError", "RuntimeError", "KeyError", "TypeError", "JSONDecodeError",
     "ConnectError", "ConnectTimeout", "ReadTimeout"}

\* An LLMResponse: its finish_reason, its content, and the endpoint whose
\* response body it was parsed from (None for an error reply)
NoResponse == [finish_reason |-> None, content |-> None, ep |-> None]
LLMResponse(finishReason, content) ==
    [finish_reason |-> finishReason, content |-> content, ep |-> None]

\* A variant of the except clauses with the first clause only
ExceptResponseForStatusOnly(kind) ==
    IF kind = "HTTPStatusError" THEN LLMResponse("error", "Antigravity API error")
    ELSE NoResponse

\* The except clauses of chat(): what it returns for an exception
ExceptResponse(kind) ==
    IF kind = "HTTPStatusError" THEN LLMResponse("error", "Antigravity API error")
    ELSE IF kind \in ExceptionClasses THEN LLMResponse("error", "Antigravity error")
    ELSE NoResponse

\* An exception reaches the except clauses: chat() returns, or it propagates
ChatExcept(kind) ==
    /\ cpc' = "done"
    /\ chatResult' = ExceptResponse(kind)
    /\ chatRaised' = IF ExceptResponse(kind) = NoResponse THEN kind ELSE None

\* chat() is called: up to the first suspension of get_valid_token
ChatCall ==
    /\ cpc = "start"
    /\ GetValidTokenCall(1)
    /\ cpc' = "auth"
    /\ UNCHANGED <<projectId, projectCache, discoveryPosts, requestBody, chatResult,
                   chatRaised>>
    /\ UNCHANGED providerVars

\* The loadCodeAssist endpoints, prod first
DiscoveryEndpoints ==
    <<API_ENDPOINT_FALLBACKS[Len(API_ENDPOINT_FALLBACKS)]>>
    \o SubSeq(API_ENDPOINT_FALLBACKS, 1, Len(API_ENDPOINT_FALLBACKS) - 1)

\* What a loadCodeAssist request can give: 200 with a project, 200 without
\* one, another status, or an exception
DiscoveryReplies == {"project", "no-project", "status-403", "exception"}
DiscoveredProject == "discovered-project"

\* The requests the discovery loop sends when the endpoints answer as in
\* replies: up to and including the first that gives a project
\* A loadCodeAssist request, and whether its reply gave a project
DiscoveryPost(ep, found) ==
    [ep |-> ep, path |-> LOAD_CODE_ASSIST_PATH, headers |-> DiscoveryHeaders,
     found |-> found]

RECURSIVE DiscoveryRequests(_, _)
DiscoveryRequests(eps, replies) ==
    IF eps = <<>> THEN <<>>
    ELSE IF Head(replies) = "project" THEN <<DiscoveryPost(Head(eps), TRUE)>>
    ELSE <<DiscoveryPost(Head(eps), FALSE)>> \o DiscoveryRequests(Tail(eps), Tail(replies))

DiscoveryResult(replies) ==
    IF "project" \in Range(replies) THEN DiscoveredProject ELSE DEFAULT_PROJECT_ID

\* A variant of the cache test that finds nothing
CacheMisses(cache, email) == FALSE

CacheHas(cache, email) == \E i \in DOMAIN cache : cache[i].email = email

\* The project of a body not built yet, and of the body built for a project
\* ---- _resolve_model, _build_request_body ----

\* A model name is the sequence of the pieces its hyphens separate; a
\* provider prefix such as "anthropic/" is a piece of its own at the front.
DEFAULT_MODEL == <<"claude", "sonnet", "4", "5">>

\* str.lower() of a piece
Lower(piece) ==
    CASE piece \in {"Thinking", "THINKING"} -> "thinking"
      [] piece = "Preview"     -> "preview"
      [] piece = "Low"         -> "low"
      [] piece = "Anthropic/"  -> "anthropic/"
      [] piece = "Antigravity" -> "antigravity"
      [] piece = "Gemini"      -> "gemini"
      [] piece = "Pro"         -> "pro"
      [] OTHER                 -> piece

LITELLM_PREFIXES ==
    {"anthropic/", "openai/", "google/", "bedrock/", "vertex_ai/", "deepseek/", "groq/",
     "openrouter/"}

\* MODEL_ALIASES.get(name, name)
ModelAlias(name) ==
    IF name \in {<<"claude", "opus", "4", "5">>, <<"claude", "opus", "4", "5", "thinking">>,
                 <<"claude", "opus", "4", "6">>}
    THEN <<"claude", "opus", "4", "6", "thinking">>
    ELSE name

Last(name) == name[Len(name)]
Front(name) == SubSeq(name, 1, Len(name) - 1)

\* _resolve_model
ResolveModel(model) ==
    LET noProvider == IF model # <<>> /\ Lower(Head(model)) \in LITELLM_PREFIXES
                      THEN Tail(model) ELSE model
        bare       == IF Len(noProvider) >= 2 /\ Lower(Head(noProvider)) = "antigravity"
                      THEN Tail(noProvider) ELSE noProvider
        noPreview  == IF Len(bare) >= 2 /\ Lower(Last(bare)) = "preview"
                      THEN Front(bare) ELSE bare
        aliased    == ModelAlias(noPreview)
    IN  IF /\ Len(aliased) >= 3
           /\ <<Lower(aliased[1]), Lower(aliased[2]), Lower(aliased[3])>> = <<"gemini", "3", "pro">>
           /\ ~(Len(aliased) >= 2 /\ Lower(Last(aliased)) \in {"minimal", "low", "medium", "high"})
        THEN Append(aliased, "low")
        ELSE aliased

\* A variant of the test that compares the letters as they are
EndsWithThinkingAsWritten(model) == Len(model) >= 2 /\ Last(model) = "thinking"

\* _is_thinking_model: model.lower().endswith("-thinking")
IsThinkingModel(model) == Len(model) >= 2 /\ Lower(Last(model)) = "thinking"

NoBody == [project |-> None, model |-> <<>>, generationConfig |-> [maxOutputTokens |-> 0]]

\* _build_request_body: the project, the model and the generationConfig of
\* the body it returns
RequestBody(model, max_tokens, project) ==
    LET api_model       == ResolveModel(model)
        half            == max_tokens \div 2
        thinking_budget == IF 8192 >= half THEN 8192 ELSE half
    IN  [project |-> project,
         model |-> api_model,
         generationConfig |->
            IF IsThinkingModel(api_model)
            THEN [maxOutputTokens |-> IF max_tokens < thinking_budget + 4096
                                      THEN thinking_budget + 4096
                                      ELSE max_tokens,
                  thinkingConfig |-> [includeThoughts |-> TRUE,
                                      thinkingBudget |-> thinking_budget]]
            ELSE [maxOutputTokens |-> max_tokens]]

\* The arguments chat() and stream_chat() have by default
DefaultArgs == [model |-> DEFAULT_MODEL, max_tokens |-> 4096]

\* _build_request_body alone, for the arguments of the call
BuildRequestBody(project) ==
    /\ cpc = "start"
    /\ cpc' = "request"
    /\ requestBody' = RequestBody(callArgs.model, callArgs.max_tokens, project)
    /\ UNCHANGED <<projectId, projectCache, discoveryPosts, chatResult, chatRaised, callArgs>>

\* self._project_id_cache[email]
CacheGet(cache, email) ==
    cache[CHOOSE i \in DOMAIN cache : cache[i].email = email].project

\* _build_request_body, then _request_with_retry is entered
ChatRequest(bodyOk, project) ==
    IF bodyOk
    THEN /\ cpc' = "request"
         /\ rpc' = "loop"
         /\ requestBody' = RequestBody(callArgs.model, callArgs.max_tokens, project)
         /\ UNCHANGED <<chatResult, chatRaised>>
    ELSE /\ ChatExcept("KeyError")
         /\ UNCHANGED <<rpc, requestBody>>

\* get_valid_token has returned or raised: chat() goes on to
\* _ensure_project_id, which asks for the token again unless a project was
\* configured.
ChatAfterAuth(bodyOk) ==
    /\ cpc = "auth"
    /\ caller[1].pc \in {"returned", "raised"}
    /\ IF caller[1].pc = "raised"
       THEN /\ ChatExcept(caller[1].exc)
            /\ UNCHANGED <<rpc, requestBody, storeVars>>
       ELSE IF projectId # ""
       THEN /\ ChatRequest(bodyOk, projectId)
            /\ UNCHANGED storeVars
       ELSE /\ GetValidTokenCall(2)
            /\ cpc' = "project"
            /\ UNCHANGED <<rpc, requestBody, chatResult, chatRaised>>
    /\ UNCHANGED <<projectId, projectCache, discoveryPosts>>
    /\ UNCHANGED <<endpoint, server, epIdx, attempt, lastError, log, response, raised>>

\* The rest of _ensure_project_id: the cache, or the discovery loop
ChatDiscover(replies, bodyOk) ==
    /\ cpc = "project"
    /\ caller[2].pc \in {"returned", "raised"}
    /\ IF caller[2].pc = "raised"
       THEN /\ ChatExcept(caller[2].exc)
            /\ UNCHANGED <<rpc, requestBody, projectCache, discoveryPosts>>
       ELSE /\ IF CacheHas(projectCache, Email)
               THEN UNCHANGED <<projectCache, discoveryPosts>>
               ELSE /\ discoveryPosts' = discoveryPosts
                                         \o DiscoveryRequests(DiscoveryEndpoints, replies)
                    /\ projectCache' = Append(projectCache,
                                         [email |-> Email, project |-> DiscoveryResult(replies)])
            /\ ChatRequest(bodyOk, CacheGet(projectCache', Email))
    /\ UNCHANGED <<projectId, storeVars>>
    /\ UNCHANGED <<endpoint, server, epIdx, attempt, lastError, log, response, raised>>

\* What response.json() and parse_gemini_response make of a 2xx body
ResponseBodies == {"candidate", "no-candidates", "not-json", "malformed"}

\* _request_with_retry has returned or raised: the parsing, the return
ChatFinish(body) ==
    /\ cpc = "request"
    /\ rpc \in {"returned", "raised"}
    /\ IF rpc = "raised"
       THEN /\ ChatExcept(raised.kind)
            /\ UNCHANGED response
       ELSE /\ response' = [response EXCEPT !.body = body]
            /\ IF body = "not-json" THEN ChatExcept("JSONDecodeError")
               ELSE IF body = "malformed" THEN ChatExcept("KeyError")
               ELSE /\ cpc' = "done"
                    /\ chatResult' =
                         [(IF body = "no-candidates" THEN LLMResponse("error", None)
                           ELSE LLMResponse("stop", "text")) EXCEPT !.ep = response.ep]
                    /\ chatRaised' = None
    /\ UNCHANGED <<projectId, projectCache, discoveryPosts, requestBody, storeVars>>
    /\ UNCHANGED <<endpoint, server, rpc, epIdx, attempt, lastError, log, raised>>

\* ---- stream_chat ----

\* An exception leaves stream_chat, which has no except clause
StreamRaise(kind) ==
    /\ cpc' = "done"
    /\ chatResult' = NoResponse
    /\ chatRaised' = kind

\* stream_chat() is called: up to the first suspension of get_valid_token
StreamCall ==
    /\ cpc = "start"
    /\ GetValidTokenCall(1)
    /\ cpc' = "stream-auth"
    /\ UNCHANGED <<projectId, projectCache, discoveryPosts, requestBody, chatResult,
                   chatRaised>>
    /\ UNCHANGED providerVars

\* _build_request_body; the POST comes next
StreamRequest(bodyOk, project) ==
    IF bodyOk
    THEN /\ cpc' = "stream-request"
         /\ requestBody' = RequestBody(callArgs.model, callArgs.max_tokens, project)
         /\ UNCHANGED <<chatResult, chatRaised>>
    ELSE /\ StreamRaise("KeyError")
         /\ UNCHANGED requestBody

\* get_valid_token has returned or raised: on to _ensure_project_id
StreamAfterAuth(bodyOk) ==
    /\ cpc = "stream-auth"
    /\ caller[1].pc \in {"returned", "raised"}
    /\ IF caller[1].pc = "raised"
       THEN /\ StreamRaise(caller[1].exc)
            /\ UNCHANGED <<requestBody, storeVars>>
       ELSE IF projectId # ""
       THEN /\ StreamRequest(bodyOk, projectId)
            /\ UNCHANGED storeVars
       ELSE /\ GetValidTokenCall(2)
            /\ cpc' = "stream-project"
            /\ UNCHANGED <<requestBody, chatResult, chatRaised>>
    /\ UNCHANGED <<projectId, projectCache, discoveryPosts>>
    /\ UNCHANGED providerVars

\* The rest of _ensure_project_id, called from stream_chat
StreamDiscover(replies, bodyOk) ==
    /\ cpc = "stream-project"
    /\ caller[2].pc \in {"returned", "raised"}
    /\ IF caller[2].pc = "raised"
       THEN /\ StreamRaise(caller[2].exc)
            /\ UNCHANGED <<requestBody, projectCache, discoveryPosts>>
       ELSE /\ IF CacheHas(projectCache, Email)
               THEN UNCHANGED <<projectCache, discoveryPosts>>
               ELSE /\ discoveryPosts' = discoveryPosts
                                         \o DiscoveryRequests(DiscoveryEndpoints, replies)
                    /\ projectCache' = Append(projectCache,
                                         [email |-> Email, project |-> DiscoveryResult(replies)])
            /\ StreamRequest(bodyOk, CacheGet(projectCache', Email))
    /\ UNCHANGED <<projectId, storeVars>>
    /\ UNCHANGED providerVars

\* client.stream("POST", ...) on the configured endpoint, raise_for_status
\* and the chunks: one request, no retry and no other endpoint
StreamPost(reply) ==
    /\ cpc = "stream-request"
    /\ reply \in server
    /\ log' = Append(log, StreamEvent(endpoint, reply))
    /\ IF reply.kind = "http" /\ IsSuccess(reply.status)
       THEN /\ cpc' = "done"
            /\ chatResult' = [LLMResponse("stop", "chunks") EXCEPT !.ep = endpoint]
            /\ chatRaised' = None
       ELSE StreamRaise(IF reply.kind = "http" THEN "HTTPStatusError" ELSE reply.kind)
    /\ UNCHANGED <<projectId, projectCache, discoveryPosts, requestBody, storeVars>>
    /\ UNCHANGED <<endpoint, server, rpc, epIdx, attempt, lastError, response, raised>>

\* The call is over; the provider and the auth manager are used again
CallAgain ==
    /\ cpc = "done"
    /\ cpc' = "start"
    /\ rpc' = "idle"
    /\ epIdx' = 1
    /\ attempt' = 0
    /\ lastError' = NoError
    /\ response' = [status |-> 0, ep |-> None, body |-> None]
    /\ raised' = NoError
    /\ requestBody' = NoBody
    /\ chatResult' = NoResponse
    /\ chatRaised' = None
    /\ caller' = [c \in Callers |-> IdleCaller]
    /\ UNCHANGED <<endpoint, server, log, projectId, projectCache, discoveryPosts>>
    /\ UNCHANGED <<accounts, activeEmail, credFile, now, issued, tokenPosts, opLog>>

----------------------------------------------------------------------------
(* transform.py: messages_to_gemini *)

\* An OpenAI message: its role, its content (None, a string, or a list of
\* items) and its tool calls.
NoContent      == [kind |-> "none", text |-> "", items |-> <<>>]
StrContent(t)  == [kind |-> "str", text |-> t, items |-> <<>>]
ListContent(l) == [kind |-> "list", text |-> "", items |-> l]

\* The items of a content list: {"type": "text", "text": t}, a bare string,
\* or a dict of another type (an image).
TextItem(t) == [kind |-> "text", text |-> t]
StrItem(t)  == [kind |-> "str", text |-> t]
ImageItem   == [kind |-> "image_url", text |-> ""]

Message(role, content, toolCalls) ==
    [role |-> role, content |-> content, tool_calls |-> toolCalls]

\* Python truthiness of msg.get("content")
Truthy(content) ==
    \/ content.kind = "str" /\ content.text # ""
    \/ content.kind = "list" /\ content.items # <<>>

\* Gemini parts
TextPart(t)             == [type |-> "text", value |-> t]
FunctionCallPart(n)     == [type |-> "functionCall", value |-> n]
FunctionResponsePart(r) == [type |-> "functionResponse", value |-> r]

Entry(role, parts) == [role |-> role, parts |-> parts]

\* The text of a message's content, as the part carries it
ContentText(content) == IF content.kind = "list" THEN "<list>" ELSE content.text

\* The parts of the items of a content list (lines 80-85)
RECURSIVE ItemParts(_)
ItemParts(items) ==
    IF items = <<>> THEN <<>>
    ELSE (IF Head(items).kind \in {"text", "str"}
          THEN <<TextPart(Head(items).text)>> ELSE <<>>) \o ItemParts(Tail(items))

RECURSIVE ToolCallParts(_)
ToolCallParts(tcs) ==
    IF tcs = <<>> THEN <<>>
    ELSE <<FunctionCallPart(Head(tcs))>> \o ToolCallParts(Tail(tcs))

GeminiRole(role) == IF role = "assistant" THEN "model" ELSE "user"

\* The parts one non-system message becomes (lines 40-87)
MessageParts(msg) ==
    IF msg.role = "assistant" /\ msg.tool_calls # <<>>
    THEN (IF Truthy(msg.content) THEN <<TextPart(ContentText(msg.content))>> ELSE <<>>)
         \o ToolCallParts(msg.tool_calls)
    ELSE IF msg.role = "tool"
    THEN <<FunctionResponsePart(ContentText(msg.content))>>
    ELSE IF Truthy(msg.content)
    THEN (IF msg.content.kind = "list" THEN ItemParts(msg.content.items)
          ELSE <<TextPart(msg.content.text)>>)
    ELSE <<>>

\* The first loop: one entry per non-system message that has parts
RECURSIVE RawContents(_)
RawContents(msgs) ==
    IF msgs = <<>> THEN <<>>
    ELSE LET msg == Head(msgs) IN
         (IF msg.role # "system" /\ MessageParts(msg) # <<>>
          THEN <<Entry(GeminiRole(msg.role), MessageParts(msg))>> ELSE <<>>)
         \o RawContents(Tail(msgs))

\* system_parts
RECURSIVE SystemParts(_)
SystemParts(msgs) ==
    IF msgs = <<>> THEN <<>>
    ELSE (IF Head(msgs).role = "system" /\ Truthy(Head(msgs).content)
          THEN <<TextPart(ContentText(Head(msgs).content))>> ELSE <<>>)
         \o SystemParts(Tail(msgs))

HasFunctionResponse(parts) ==
    \E i \in DOMAIN parts : parts[i].type = "functionResponse"

Placeholder == Entry("model", <<TextPart("OK.")>>)

\* Two variants of the merge step: one that keeps entries of different part
\* types apart without a placeholder, one that merges whatever the parts
MergeEntryNoPlaceholder(merged, entry) ==
    IF /\ merged # <<>>
       /\ merged[Len(merged)].role = entry.role
       /\ HasFunctionResponse(merged[Len(merged)].parts) = HasFunctionResponse(entry.parts)
    THEN [merged EXCEPT ![Len(merged)].parts = @ \o entry.parts]
    ELSE Append(merged, entry)
MergeEntryAnyParts(merged, entry) ==
    IF merged # <<>> /\ merged[Len(merged)].role = entry.role
    THEN [merged EXCEPT ![Len(merged)].parts = @ \o entry.parts]
    ELSE Append(merged, entry)

\* One step of the merge loop: entry joins the list merged so far
MergeEntry(merged, entry) ==
    IF merged # <<>> /\ merged[Len(merged)].role = entry.role
    THEN IF HasFunctionResponse(merged[Len(merged)].parts)
            # HasFunctionResponse(entry.parts)
         THEN merged \o <<Placeholder, entry>>
         ELSE [merged EXCEPT ![Len(merged)].parts = @ \o entry.parts]
    ELSE Append(merged, entry)

\* The merge loop (lines 96-109)
RECURSIVE Merge(_, _)
Merge(merged, entries) ==
    IF entries = <<>> THEN merged
    ELSE Merge(MergeEntry(merged, Head(entries)), Tail(entries))

\* messages_to_gemini: (contents, system_instruction)
MessagesToGeminiContents(msgs) == Merge(<<>>, RawContents(msgs))
MessagesToGeminiSystem(msgs) ==
    IF SystemParts(msgs) # <<>> THEN Entry("user", SystemParts(msgs))
    ELSE Entry(None, <<>>)

MessagesToGemini ==
    /\ xpc = "input"
    /\ xpc' = "done"
    /\ contents' = MessagesToGeminiContents(messages)
    /\ systemInstruction' = MessagesToGeminiSystem(messages)
    /\ UNCHANGED messages

----------------------------------------------------------------------------
(* metrics/collector.py: MetricsCollector *)

\* tool_events.jsonl, llm_events.jsonl, sessions.jsonl
MetricsPaths == {"tool_events", "llm_events", "sessions"}

Writers == 1..2

\* What one write() puts into a file: json.dumps(data) + "\n" of an event,
\* a line that is not JSON, a blank line
JsonLine(ev) == [kind |-> "json", ev |-> ev]
CorruptLine  == [kind |-> "corrupt", ev |-> 0]
BlankLine    == [kind |-> "blank", ev |-> 0]

\* A variant that hands the line to the file in two writes
FlushInPieces(line) == <<[kind |-> "head", ev |-> line.ev], [kind |-> "tail", ev |-> line.ev]>>

\* Leaving "with open(path, "a") as f": the one line f.write() buffered goes
\* to the file in a single write()
Flush(line) == <<line>>

NoWriter == [pc |-> "idle", path |-> None, ev |-> 0, pending |-> <<>>]
NoRead   == [path |-> None, limit |-> 0, lines |-> <<>>]

\* record_tool_event / record_llm_event / record_session, up to the end of
\* f.write(): open(path, "a") either raises, and the except clause logs a
\* warning, or the line is buffered
RecordEvent(w, path, ok) ==
    /\ writer[w].pc = "idle"
    /\ events' = Append(events, [path |-> path,
                                 state |-> IF ok THEN "pending" ELSE "failed"])
    /\ writer' = IF ok
                 THEN [writer EXCEPT ![w] = [pc |-> "open", path |-> path,
                                             ev |-> Len(events) + 1,
                                             pending |-> Flush(JsonLine(Len(events) + 1))]]
                 ELSE writer
    /\ UNCHANGED <<metricsFiles, readResult>>

\* record_* of a collector made with enabled=False: __init__ returned before
\* it assigned _tool_path, _llm_path and _session_path, so the argument
\* self._tool_path of the call to _append raises AttributeError, and
\* _append, which would return at once, is not entered.  Nothing is written.
RecordDisabled(path) ==
    /\ events' = Append(events, [path |-> path, state |-> "AttributeError"])
    /\ UNCHANGED <<metricsFiles, writer, readResult>>

\* A variant of the write with the file opened in mode "w"
WriteTruncating(w) ==
    /\ writer[w].pc = "open"
    /\ metricsFiles' = [metricsFiles EXCEPT ![writer[w].path] = <<Head(writer[w].pending)>>]
    /\ writer' = [writer EXCEPT ![w] = NoWriter]
    /\ events' = [events EXCEPT ![writer[w].ev].state = "written"]
    /\ UNCHANGED readResult

\* One write() of an open file: the file is in append mode, the bytes go to
\* its end; after the last one the file is closed and _append returns
WriteSyscall(w) ==
    /\ writer[w].pc = "open"
    /\ metricsFiles' = [metricsFiles EXCEPT ![writer[w].path] =
                            Append(@, Head(writer[w].pending))]
    /\ IF Len(writer[w].pending) = 1
       THEN /\ writer' = [writer EXCEPT ![w] = NoWriter]
            /\ events' = [events EXCEPT ![writer[w].ev].state = "written"]
       ELSE /\ writer' = [writer EXCEPT ![w].pending = Tail(@)]
            /\ UNCHANGED events
    /\ UNCHANGED readResult

\* The loop of _read over the lines of the file: blank lines are passed
\* over, json.loads of each other line is appended; the try statement is
\* around the loop, so the first line json.loads rejects ends it
RECURSIVE ReadFrom(_, _)
ReadFrom(chunks, lines) ==
    IF chunks = <<>> THEN lines
    ELSE LET c == Head(chunks)
         IN  CASE c.kind = "blank" -> ReadFrom(Tail(chunks), lines)
               [] c.kind = "json"  -> ReadFrom(Tail(chunks), Append(lines, c.ev))
               [] /\ c.kind = "head"
                  /\ Len(chunks) > 1
                  /\ chunks[2] = [kind |-> "tail", ev |-> c.ev]
                                   -> ReadFrom(Tail(Tail(chunks)), Append(lines, c.ev))
               [] OTHER            -> lines

\* _read(path, limit); a file that does not exist reads as an empty one
ReadCall(path, limit) ==
    /\ LET lines == ReadFrom(metricsFiles[path], <<>>)
           n     == Len(lines)
       IN  readResult' = [path |-> path, limit |-> limit,
                          lines |-> IF limit > 0 /\ limit < n
                                    THEN SubSeq(lines, n - limit + 1, n)
                                    ELSE lines]
    /\ UNCHANGED <<metricsFiles, events, writer>>

----------------------------------------------------------------------------
(* cli/commands.py: the cron callback of the gateway, the cron and auth commands *)

\* a or b, for strings and None
PyOr(a, b) == IF a \in {None, ""} THEN b ELSE a

\* CronJob.payload and CronJob, as service.add_job stores them
Payload(deliver, to, channel) == [deliver |-> deliver, to |-> to, channel |-> channel]
Job(id, payload) == [id |-> id, enabled |-> TRUE, runs |-> 0, payload |-> payload]

JobIds(jobs) == {jobs[i].id : i \in DOMAIN jobs}

\* The id service.add_job gives a new job: one no stored job has
NewJobId(jobs) ==
    LET pool == <<"j1", "j2", "j3">>
    IN  pool[CHOOSE i \in DOMAIN pool :
                /\ pool[i] \notin JobIds(jobs)
                /\ \A k \in 1..(i - 1) : pool[k] \in JobIds(jobs)]

\* A variant of the delivery test that looks at the flag only
DeliverFlagOnly(payload) == payload.deliver

\* job.payload.deliver and job.payload.to
Deliver(payload) == payload.deliver /\ payload.to \notin {None, ""}

\* on_cron_job(job): process_direct returns the reply text
OnCronJob(job, reply) ==
    /\ agentCalls' = Append(agentCalls,
                            [session_key |-> <<"cron", job.id>>,
                             channel |-> PyOr(job.payload.channel, "cli"),
                             chat_id |-> PyOr(job.payload.to, "direct"),
                             reply |-> reply])
    /\ outbound' = IF Deliver(job.payload)
                   THEN Append(outbound,
                               [channel |-> PyOr(job.payload.channel, "cli"),
                                chat_id |-> job.payload.to,
                                content |-> PyOr(reply, "")])
                   ELSE outbound
    /\ UNCHANGED <<cronJobs, cli>>

\* A command that has run: its name, its arguments and its exit status
Ran(cmd, arg, exit) ==
    [cmd |-> cmd, arg |-> arg, exit |-> exit]

NoCommand == [cmd |-> None, arg |-> <<>>, exit |-> 0]

\* nanobot cron add, its options as given on the command line: typer.Exit(1)
\* without a schedule, an uncaught ValueError of fromisoformat also ends the
\* command with status 1
CronAdd(every, cronExpr, at, payload) ==
    LET scheduled == \/ every \notin {None, "0"}
                     \/ cronExpr \notin {None, ""}
                     \/ at \notin {None, "", "not a date"}
    IN  /\ cronJobs' = IF scheduled
                       THEN Append(cronJobs, Job(NewJobId(cronJobs), payload))
                       ELSE cronJobs
        /\ cli' = Ran("cron add", <<every, cronExpr, at>>, IF scheduled THEN 0 ELSE 1)
        /\ UNCHANGED <<agentCalls, outbound>>

\* nanobot cron remove: the command returns after either message
CronRemove(id) ==
    /\ cronJobs' = SelectSeq(cronJobs, LAMBDA j : j.id # id)
    /\ cli' = Ran("cron remove", <<id>>, 0)
    /\ UNCHANGED <<agentCalls, outbound>>

\* nanobot cron enable [--disable]
CronEnable(id, disable) ==
    /\ cronJobs' = [i \in DOMAIN cronJobs |->
                       IF cronJobs[i].id = id
                       THEN [cronJobs[i] EXCEPT !.enabled = ~disable]
                       ELSE cronJobs[i]]
    /\ cli' = Ran("cron enable", <<id>>, 0)
    /\ UNCHANGED <<agentCalls, outbound>>

\* nanobot cron run [--force]: the service of this command has no callback
CronRun(id, force) ==
    /\ cronJobs' = [i \in DOMAIN cronJobs |->
                       IF cronJobs[i].id = id /\ (force \/ cronJobs[i].enabled)
                       THEN [cronJobs[i] EXCEPT !.runs = 1]
                       ELSE cronJobs[i]]
    /\ cli' = Ran("cron run", <<id>>, 0)
    /\ UNCHANGED <<agentCalls, outbound>>

\* nanobot auth switch: the command returns after either message
AuthSwitch(email) ==
    /\ Switch(email)
    /\ cli' = Ran("auth switch", <<email>>, 0)
    /\ UNCHANGED <<cronJobs, agentCalls, outbound>>

----------------------------------------------------------------------------
(* provider.py: the SSE loop of stream_chat *)

\* The payloads of the lines of a response body: two JSON objects, JSON that
\* is not an object, text that is not JSON, and the end marker, bare and
\* between blanks.
SsePayloads == {"{text: a}", "{text: b}", "null", "oops", "[DONE]", " [DONE] "}

\* The lines: "data: " frames with each payload, a frame without the blank
\* after the colon, and a comment line.
SseLines ==
    [prefix : {"data: "}, payload : SsePayloads]
        \cup {[prefix |-> "data:", payload |-> "{text: a}"],
              [prefix |-> "", payload |-> ": ping"]}

\* line.startswith("data: ")
StartsWithData(line) == line.prefix = "data: "

\* payload.strip()
Strip(payload) == IF payload = " [DONE] " THEN "[DONE]" ELSE payload

\* json.loads(payload): the value, or JSONDecodeError
JsonLoads(payload) ==
    IF payload = "{text: a}" THEN [ok |-> TRUE, type |-> "dict", text |-> "a"]
    ELSE IF payload = "{text: b}" THEN [ok |-> TRUE, type |-> "dict", text |-> "b"]
    ELSE IF payload = "null" THEN [ok |-> TRUE, type |-> "NoneType", text |-> None]
    ELSE [ok |-> FALSE, type |-> None, text |-> None]

\* parse_sse_chunk(event): _unwrap_response tests `"response" in data`, which
\* raises TypeError when data is not a container; a dict gives its delta.
ParseSseChunk(event) ==
    [raises |-> event.type # "dict", content_delta |-> event.text]

NoStream == [lines |-> <<>>, pos |-> 0, yielded |-> <<>>, pc |-> "idle"]

\* One iteration of `async for line in resp.aiter_lines()`
StreamLine ==
    /\ sse.pc = "streaming"
    /\ sse.pos < Len(sse.lines)
    /\ LET line == sse.lines[sse.pos + 1]
           read == [sse EXCEPT !.pos = @ + 1]
           event == JsonLoads(line.payload)
           parsed == ParseSseChunk(event)
       IN sse' = IF ~StartsWithData(line) THEN read
                 ELSE IF Strip(line.payload) = "[DONE]"
                 THEN [read EXCEPT !.pc = "done"]
                 ELSE IF ~event.ok THEN read
                 ELSE IF parsed.raises THEN [read EXCEPT !.pc = "raised"]
                 ELSE [read EXCEPT !.yielded = Append(@, parsed.content_delta)]

\* aiter_lines() is exhausted: the generator returns
StreamEnd ==
    /\ sse.pc = "streaming"
    /\ sse.pos = Len(sse.lines)
    /\ sse' = [sse EXCEPT !.pc = "ended"]

----------------------------------------------------------------------------
(* Specifications *)

ConfiguredEndpoints == Range(API_ENDPOINT_FALLBACKS) \cup {CustomEndpoint}

ProviderInit(ep, srv) ==
    /\ endpoint = ep
    /\ server = srv
    /\ rpc = "idle"
    /\ epIdx = 1
    /\ attempt = 0
    /\ lastError = NoError
    /\ log = <<>>
    /\ response = [status |-> 0, ep |-> None, body |-> None]
    /\ raised = NoError

ChatIdle ==
    /\ cpc = "none"
    /\ projectId = ""
    /\ projectCache = <<>>
    /\ discoveryPosts = <<>>
    /\ requestBody = NoBody
    /\ chatResult = NoResponse
    /\ chatRaised = None

StoreIdle ==
    /\ accounts = <<>>
    /\ activeEmail = ""
    /\ credFile = NoFile
    /\ now = 0
    /\ issued = 0
    /\ tokenPosts = <<>>
    /\ caller = <<>>
    /\ opLog = NoOp

XformIdle ==
    /\ messages = <<>>
    /\ xpc = "none"
    /\ contents = <<>>
    /\ systemInstruction = Entry(None, <<>>)

MetricsIdle ==
    /\ metricsFiles = [p \in MetricsPaths |-> <<>>]
    /\ events = <<>>
    /\ writer = [w \in Writers |-> NoWriter]
    /\ readResult = NoRead

CliIdle ==
    /\ cronJobs = <<>>
    /\ cli = NoCommand
    /\ agentCalls = <<>>
    /\ outbound = <<>>

ToolIdle == MetricsIdle /\ loginFlow = NoLogin /\ CliIdle /\ callArgs = DefaultArgs /\ sse = NoStream

\* _request_with_retry is entered: endpoints = self._get_endpoints(),
\* last_error = None, and the loops start at the first endpoint.
RequestStart ==
    /\ rpc = "idle"
    /\ rpc' = "loop"
    /\ UNCHANGED <<endpoint, server, epIdx, attempt, lastError, log, response, raised>>

InitRetry ==
    /\ \E ep \in ConfiguredEndpoints, srv \in ServerProfiles : ProviderInit(ep, srv)
    /\ ChatIdle /\ StoreIdle /\ XformIdle /\ ToolIdle

NextRetry ==
    \/ RequestStart /\ cpc = "none" /\ UNCHANGED <<chatVars, storeVars, xformVars, toolVars>>
    \/ (\E reply \in AllReplies : RequestAttempt(reply))
         /\ UNCHANGED <<chatVars, storeVars, xformVars, toolVars>>

SpecRetry == InitRetry /\ [][NextRetry]_vars

\* ---- the credential store, one get_valid_token call at a time ----

MaxIssued == 3
MaxPosts == 2
MaxStorePosts == 1
StartTime == 1000

\* The token endpoint of the store runs: a good reply and a refusal
StoreRefreshReplies == {RefreshOk(FALSE, FALSE, 0), RefreshHttpError(400)}

Emails == {"", "a", "b"}

\* The modes a file written by something else can have
FileModes == {"0600", "0644"}
LogoutArgs == {None, "*"} \cup Emails

ProviderIdle == ProviderInit(DEFAULT_API_ENDPOINT, {})

InitStore ==
    /\ accounts = <<>>
    /\ activeEmail = ""
    /\ credFile = NoFile
    /\ now = StartTime
    /\ issued = 0
    /\ tokenPosts = <<>>
    /\ caller = <<IdleCaller>>
    /\ opLog = NoOp
    /\ ProviderIdle /\ ChatIdle /\ XformIdle /\ ToolIdle

NextStore ==
    \/ (\E e \in Emails, hr \in BOOLEAN : issued < MaxIssued /\ Login(e, hr, FALSE, 0))
         /\ UNCHANGED <<providerVars, chatVars, xformVars, toolVars>>
    \/ LoginFails /\ UNCHANGED <<providerVars, chatVars, xformVars, toolVars>>
    \/ (\E e \in Emails : Switch(e)) /\ UNCHANGED <<providerVars, chatVars, xformVars, toolVars>>
    \/ (\E arg \in LogoutArgs : Logout(arg)) /\ UNCHANGED <<providerVars, chatVars, xformVars, toolVars>>
    \/ Reload /\ UNCHANGED <<providerVars, chatVars, xformVars, toolVars>>
    \/ (\E m \in FileModes, e \in {"", "a"}, hr \in BOOLEAN :
            issued < MaxIssued /\ OlderVersionWrites(m, e, hr))
         /\ UNCHANGED <<providerVars, chatVars, xformVars, toolVars>>
    \/ (Len(tokenPosts) < MaxStorePosts /\ GetValidTokenCall(1))
         /\ UNCHANGED <<providerVars, chatVars, xformVars, toolVars>>
    \/ (\E reply \in StoreRefreshReplies :
            (reply.status = 200 => issued < MaxIssued) /\ GetValidTokenReply(1, reply))
         /\ UNCHANGED <<providerVars, chatVars, xformVars, toolVars>>
    \/ CallerDone(1) /\ UNCHANGED <<providerVars, chatVars, xformVars, toolVars>>
    \/ (now = StartTime /\ Tick(DEFAULT_EXPIRES_IN - EXPIRY_BUFFER))
         /\ UNCHANGED <<providerVars, chatVars, xformVars, toolVars>>

SpecStore == InitStore /\ [][NextStore]_vars

\* ---- login, switch, logout and refresh on a store that starts empty ----

NextAccounts ==
    \/ (\E e \in Emails, hr \in BOOLEAN : issued < MaxIssued /\ Login(e, hr, FALSE, 0))
         /\ UNCHANGED <<providerVars, chatVars, xformVars, toolVars>>
    \/ LoginFails /\ UNCHANGED <<providerVars, chatVars, xformVars, toolVars>>
    \/ (\E e \in Emails : Switch(e)) /\ UNCHANGED <<providerVars, chatVars, xformVars, toolVars>>
    \/ (\E arg \in LogoutArgs : Logout(arg)) /\ UNCHANGED <<providerVars, chatVars, xformVars, toolVars>>
    \/ (Len(tokenPosts) < MaxStorePosts /\ GetValidTokenCall(1))
         /\ UNCHANGED <<providerVars, chatVars, xformVars, toolVars>>
    \/ (\E reply \in RefreshReplies :
            (reply.status = 200 => issued < MaxIssued) /\ GetValidTokenReply(1, reply))
         /\ UNCHANGED <<providerVars, chatVars, xformVars, toolVars>>
    \/ CallerDone(1) /\ UNCHANGED <<providerVars, chatVars, xformVars, toolVars>>
    \/ (now = StartTime /\ Tick(DEFAULT_EXPIRES_IN - EXPIRY_BUFFER))
         /\ UNCHANGED <<providerVars, chatVars, xformVars, toolVars>>

SpecAccounts == InitStore /\ [][NextAccounts]_vars

\* ---- get_valid_token, two calls at a time ----

\* The moments at which something happens
TimePoints == {StartTime, StartTime + 1,
               StartTime + DEFAULT_EXPIRES_IN - EXPIRY_BUFFER - 1,
               StartTime + DEFAULT_EXPIRES_IN - EXPIRY_BUFFER}

\* The expiry times of the credentials the run starts with: past, around
\* the buffer before StartTime, and a full lifetime ahead.
InitialExpiries == {StartTime - 10, StartTime + EXPIRY_BUFFER - 1,
                    StartTime + EXPIRY_BUFFER, StartTime + EXPIRY_BUFFER + 1,
                    StartTime + DEFAULT_EXPIRES_IN}

\* The stores earlier logins can have left: none, one account (with or
\* without a refresh token, or stored under "" after a failed userinfo
\* lookup), or two accounts.
InitialAccounts ==
    {<<>>}
    \cup {<<Credentials(k, 1, rt, exp, k)>> :
            k \in {"a", ""}, rt \in {0, 1}, exp \in InitialExpiries}
    \cup {<<Credentials("b", 1, 1, StartTime + DEFAULT_EXPIRES_IN, "b"),
            Credentials("a", 2, 2, exp, "a")>> : exp \in InitialExpiries}

InitToken ==
    /\ accounts \in InitialAccounts
    /\ activeEmail = (IF accounts = <<>> THEN "" ELSE accounts[Len(accounts)].key)
    /\ credFile = (IF accounts = <<>> THEN NoFile ELSE Save(activeEmail, accounts))
    /\ now = StartTime
    /\ issued = Len(accounts)
    /\ tokenPosts = <<>>
    /\ caller = <<IdleCaller, IdleCaller>>
    /\ opLog = NoOp
    /\ ProviderIdle /\ ChatIdle /\ XformIdle /\ ToolIdle

NextToken ==
    \/ (\E c \in Callers : Len(tokenPosts) < MaxPosts /\ GetValidTokenCall(c))
         /\ UNCHANGED <<providerVars, chatVars, xformVars, toolVars>>
    \/ (\E c \in Callers, reply \in RefreshReplies : GetValidTokenReply(c, reply))
         /\ UNCHANGED <<providerVars, chatVars, xformVars, toolVars>>
    \/ (\E c \in Callers : CallerDone(c))
         /\ UNCHANGED <<providerVars, chatVars, xformVars, toolVars>>
    \/ (\E t \in TimePoints : t > now /\ Tick(t - now))
         /\ UNCHANGED <<providerVars, chatVars, xformVars, toolVars>>

SpecToken == InitToken /\ [][NextToken]_vars

\* ---- messages_to_gemini on every short message list ----

MaxMsgs == 4

MessageKinds ==
    {Message("system", c, <<>>) : c \in {NoContent, StrContent("s")}}
    \cup {Message("user", c, <<>>) :
            c \in {NoContent, StrContent("u"),
                   ListContent(<<TextItem("x"), ImageItem, StrItem("y")>>),
                   ListContent(<<ImageItem>>)}}
    \cup {Message("assistant", c, tcs) :
            c \in {NoContent, StrContent("a")}, tcs \in {<<>>, <<"f">>}}
    \cup {Message("tool", c, <<>>) : c \in {NoContent, StrContent("r")}}

InitTransform ==
    /\ messages \in UNION {[1..n -> MessageKinds] : n \in 0..MaxMsgs}
    /\ xpc = "input"
    /\ contents = <<>>
    /\ systemInstruction = Entry(None, <<>>)
    /\ ProviderIdle /\ ChatIdle /\ StoreIdle /\ ToolIdle

NextTransform ==
    MessagesToGemini /\ UNCHANGED <<providerVars, chatVars, storeVars, toolVars>>

SpecTransform == InitTransform /\ [][NextTransform]_vars

\* ---- chat(), from the call to the LLMResponse ----

\* The content endpoints of the chat runs
ChatServer ==
    {HttpReply(200, NoHeader), HttpReply(400, NoHeader), HttpReply(403, NoHeader),
     HttpReply(404, NoHeader), HttpReply(429, NoHeader), ExcReply("ConnectError"),
     ExcReply("ReadTimeout")}

\* The stores of the chat runs: no account, a fresh credential, an expired
\* one with and without a refresh token
ChatAccounts ==
    {<<>>}
    \cup {<<Credentials("a", 1, rt, exp, "a")>> :
            rt \in {0, 1}, exp \in {StartTime - 10, StartTime + DEFAULT_EXPIRES_IN}}

InitChat ==
    /\ \E ep \in ConfiguredEndpoints : ProviderInit(ep, ChatServer)
    /\ cpc = "start"
    /\ projectId \in {"", "configured-project"}
    /\ projectCache = <<>>
    /\ discoveryPosts = <<>>
    /\ requestBody = NoBody
    /\ chatResult = NoResponse
    /\ chatRaised = None
    /\ accounts \in ChatAccounts
    /\ activeEmail = (IF accounts = <<>> THEN "" ELSE accounts[Len(accounts)].key)
    /\ credFile = (IF accounts = <<>> THEN NoFile ELSE Save(activeEmail, accounts))
    /\ now = StartTime
    /\ issued = Len(accounts)
    /\ tokenPosts = <<>>
    /\ caller = <<IdleCaller, IdleCaller>>
    /\ opLog = NoOp
    /\ XformIdle /\ ToolIdle

NextChat ==
    \/ ChatCall /\ UNCHANGED <<xformVars, toolVars>>
    \/ (\E c \in Callers, reply \in RefreshReplies : GetValidTokenReply(c, reply))
         /\ UNCHANGED <<providerVars, chatVars, xformVars, toolVars>>
    \/ (\E bodyOk \in BOOLEAN : ChatAfterAuth(bodyOk)) /\ UNCHANGED <<xformVars, toolVars>>
    \/ (\E replies \in [DOMAIN DiscoveryEndpoints -> DiscoveryReplies], bodyOk \in BOOLEAN :
            ChatDiscover(replies, bodyOk)) /\ UNCHANGED <<xformVars, toolVars>>
    \/ (\E reply \in ChatServer : RequestAttempt(reply))
         /\ UNCHANGED <<chatVars, storeVars, xformVars, toolVars>>
    \/ (\E body \in ResponseBodies : ChatFinish(body)) /\ UNCHANGED <<xformVars, toolVars>>

SpecChat == InitChat /\ [][NextChat]_vars

\* ---- a provider used for several calls, chat and stream_chat ----

MaxRequests == 3

\* The content endpoints of these runs
SessionServer == {HttpReply(200, NoHeader), HttpReply(404, NoHeader)}

\* The stores of these runs, all with fresh tokens: none, one account stored
\* under "", two accounts
SessionAccounts ==
    {<<>>,
     <<Credentials("", 1, 1, StartTime + DEFAULT_EXPIRES_IN, "")>>,
     <<Credentials("a", 1, 1, StartTime + DEFAULT_EXPIRES_IN, "a"),
       Credentials("b", 2, 2, StartTime + DEFAULT_EXPIRES_IN, "b")>>}

InitSession ==
    /\ \E ep \in {DEFAULT_API_ENDPOINT, CustomEndpoint} : ProviderInit(ep, SessionServer)
    /\ cpc = "start"
    /\ projectId \in {"", "configured-project"}
    /\ projectCache = <<>>
    /\ discoveryPosts = <<>>
    /\ requestBody = NoBody
    /\ chatResult = NoResponse
    /\ chatRaised = None
    /\ accounts \in SessionAccounts
    /\ activeEmail = (IF accounts = <<>> THEN "" ELSE accounts[Len(accounts)].key)
    /\ credFile = (IF accounts = <<>> THEN NoFile ELSE Save(activeEmail, accounts))
    /\ now = StartTime
    /\ issued = Len(accounts)
    /\ tokenPosts = <<>>
    /\ caller = <<IdleCaller, IdleCaller>>
    /\ opLog = NoOp
    /\ XformIdle /\ ToolIdle

NextSession ==
    \/ ChatCall /\ UNCHANGED <<xformVars, toolVars>>
    \/ (\E bodyOk \in BOOLEAN : ChatAfterAuth(bodyOk)) /\ UNCHANGED <<xformVars, toolVars>>
    \/ (\E replies \in [DOMAIN DiscoveryEndpoints -> DiscoveryReplies], bodyOk \in BOOLEAN :
            ChatDiscover(replies, bodyOk)) /\ UNCHANGED <<xformVars, toolVars>>
    \/ (\E reply \in SessionServer : RequestAttempt(reply))
         /\ UNCHANGED <<chatVars, storeVars, xformVars, toolVars>>
    \/ (\E body \in ResponseBodies : ChatFinish(body)) /\ UNCHANGED <<xformVars, toolVars>>
    \/ StreamCall /\ UNCHANGED <<xformVars, toolVars>>
    \/ (\E bodyOk \in BOOLEAN : StreamAfterAuth(bodyOk)) /\ UNCHANGED <<xformVars, toolVars>>
    \/ (\E replies \in [DOMAIN DiscoveryEndpoints -> DiscoveryReplies], bodyOk \in BOOLEAN :
            StreamDiscover(replies, bodyOk)) /\ UNCHANGED <<xformVars, toolVars>>
    \/ (\E reply \in SessionServer : StreamPost(reply)) /\ UNCHANGED <<xformVars, toolVars>>
    \/ (Len(log) < MaxRequests /\ CallAgain) /\ UNCHANGED <<xformVars, toolVars>>
    \/ (\E e \in {"a", "b"} : cpc = "start" /\ Switch(e))
         /\ UNCHANGED <<providerVars, chatVars, xformVars, toolVars>>

SpecSession == InitSession /\ [][NextSession]_vars

\* ---- the metrics collector: concurrent record_* calls and readers ----

MaxEvents == 3

OthersIdle ==
    /\ ProviderIdle /\ ChatIdle /\ StoreIdle /\ XformIdle
    /\ loginFlow = NoLogin /\ CliIdle /\ callArgs = DefaultArgs /\ sse = NoStream

otherVars == <<providerVars, chatVars, storeVars, xformVars, loginFlow, cliVars, callArgs, sse>>

InitMetrics == MetricsIdle /\ OthersIdle

NextMetrics ==
    \/ (\E w \in Writers, path \in MetricsPaths, ok \in BOOLEAN :
            Len(events) < MaxEvents /\ RecordEvent(w, path, ok))
         /\ UNCHANGED otherVars
    \/ (\E w \in Writers : WriteSyscall(w)) /\ UNCHANGED otherVars
    \/ (\E path \in MetricsPaths, limit \in 0..2 : ReadCall(path, limit))
         /\ UNCHANGED otherVars

SpecMetrics == InitMetrics /\ [][NextMetrics]_vars

\* ---- the same with a second collector that was made with enabled=False ----

NextCollector ==
    \/ NextMetrics
    \/ (\E path \in MetricsPaths : Len(events) < MaxEvents /\ RecordDisabled(path))
         /\ UNCHANGED otherVars

SpecCollector == InitMetrics /\ [][NextCollector]_vars

\* ---- _read over the files it can find ----

MaxLines == 4

\* The lines a file can hold when it is read
FileLines == {JsonLine(1), JsonLine(2), CorruptLine, BlankLine}

InitMetricsRead ==
    /\ \E path \in MetricsPaths, content \in UNION {[1..n -> FileLines] : n \in 0..MaxLines} :
          metricsFiles = [p \in MetricsPaths |-> IF p = path THEN content ELSE <<>>]
    /\ events = <<>>
    /\ writer = [w \in Writers |-> NoWriter]
    /\ readResult = NoRead
    /\ OthersIdle

NextMetricsRead ==
    (\E path \in MetricsPaths, limit \in 0..2 : ReadCall(path, limit))
       /\ UNCHANGED otherVars

SpecMetricsRead == InitMetricsRead /\ [][NextMetricsRead]_vars

\* ---- login() and its callback server ----

MaxCallbacks == 2

\* The state login() generated, and another one
LoginState == "state-1"
States == {None, LoginState, "state-2"}

Queries == {Query(e, st, c) : e \in {None, "access_denied"}, st \in States,
                              c \in {None, "code-1"}}

InitLogin ==
    /\ accounts \in {<<>>, <<Credentials("a", 1, 1, StartTime + DEFAULT_EXPIRES_IN, "a")>>}
    /\ activeEmail = (IF accounts = <<>> THEN "" ELSE "a")
    /\ credFile = (IF accounts = <<>> THEN NoFile ELSE Save(activeEmail, accounts))
    /\ now = StartTime
    /\ issued = Len(accounts)
    /\ tokenPosts = <<>>
    /\ caller = <<>>
    /\ opLog = NoOp
    /\ loginFlow = NoLogin
    /\ ProviderIdle /\ ChatIdle /\ XformIdle /\ MetricsIdle /\ CliIdle
    /\ callArgs = DefaultArgs /\ sse = NoStream

loginOtherVars == <<providerVars, chatVars, xformVars, metricsVars, cliVars, callArgs, sse>>

LoginStartStep == LoginStart(LoginState) /\ UNCHANGED loginOtherVars

HandleRequestStep ==
    (\E q \in Queries : Len(loginFlow.queries) < MaxCallbacks /\ HandleRequest(q))
       /\ UNCHANGED loginOtherVars

LoginTimeoutStep == LoginTimeout /\ UNCHANGED loginOtherVars

LoginLoopTestStep == LoginLoopTest /\ UNCHANGED loginOtherVars

LoginFinishStep ==
    (\E ok \in BOOLEAN, e \in {"a", "b"}, hr \in BOOLEAN :
        (ok => issued < MaxIssued) /\ LoginFinish(ok, e, hr))
       /\ UNCHANGED loginOtherVars

NextLogin ==
    \/ LoginStartStep
    \/ HandleRequestStep
    \/ LoginTimeoutStep
    \/ LoginLoopTestStep
    \/ LoginFinishStep

SpecLogin == InitLogin /\ [][NextLogin]_vars

\* The steps of login() itself and the expiry of the 120 s timer happen when
\* they can; whether a request arrives is up to the browser
SpecLoginLive ==
    InitLogin /\ [][NextLogin]_vars
        /\ WF_vars(LoginTimeoutStep) /\ WF_vars(LoginLoopTestStep)
        /\ WF_vars(LoginFinishStep)

\* ---- the cron callback of the gateway, the cron and auth commands ----

MaxJobs == 2
MaxRuns == 3

\* The job ids given to the commands: those of the store and an unknown one
JobArgs == {"j1", "j2", "j9"}

Payloads == {Payload(d, to, ch) : d \in BOOLEAN, to \in {None, "", "42"},
                                  ch \in {None, "telegram"}}

InitCli ==
    /\ accounts = <<Credentials("a", 1, 1, StartTime + DEFAULT_EXPIRES_IN, "a"),
                    Credentials("b", 2, 2, StartTime + DEFAULT_EXPIRES_IN, "b")>>
    /\ activeEmail = "b"
    /\ credFile = Save(activeEmail, accounts)
    /\ now = StartTime
    /\ issued = 2
    /\ tokenPosts = <<>>
    /\ caller = <<>>
    /\ opLog = NoOp
    /\ CliIdle
    /\ loginFlow = NoLogin
    /\ ProviderIdle /\ ChatIdle /\ XformIdle /\ MetricsIdle
    /\ callArgs = DefaultArgs /\ sse = NoStream

cliOtherVars == <<providerVars, chatVars, xformVars, metricsVars, loginFlow, callArgs, sse>>

NextCli ==
    \/ (\E every \in {None, "0", "60"}, cronExpr \in {None, "0 9 * * *"},
           at \in {None, "2030-01-01T09:00", "not a date"},
           payload \in {Payload(FALSE, None, None), Payload(TRUE, "42", "telegram")} :
            Len(cronJobs) < MaxJobs /\ CronAdd(every, cronExpr, at, payload))
         /\ UNCHANGED <<cliOtherVars, storeVars>>
    \/ (\E id \in JobArgs : CronRemove(id)) /\ UNCHANGED <<cliOtherVars, storeVars>>
    \/ (\E id \in JobArgs, disable \in BOOLEAN : CronEnable(id, disable))
         /\ UNCHANGED <<cliOtherVars, storeVars>>
    \/ (\E id \in JobArgs, force \in BOOLEAN : CronRun(id, force))
         /\ UNCHANGED <<cliOtherVars, storeVars>>
    \/ (\E email \in {"a", "b", "c"} : AuthSwitch(email)) /\ UNCHANGED cliOtherVars

SpecCli == InitCli /\ [][NextCli]_vars

\* ---- the gateway running the jobs of the cron store ----

InitGateway ==
    /\ \E p1 \in Payloads, p2 \in {Payload(FALSE, None, None), Payload(TRUE, "42", None)} :
          cronJobs = <<Job("j1", p1), Job("j2", p2)>>
    /\ cli = NoCommand
    /\ agentCalls = <<>>
    /\ outbound = <<>>
    /\ loginFlow = NoLogin
    /\ callArgs = DefaultArgs /\ sse = NoStream
    /\ ProviderIdle /\ ChatIdle /\ StoreIdle /\ XformIdle /\ MetricsIdle

NextGateway ==
    (\E i \in DOMAIN cronJobs, reply \in {"", "reply"} :
        Len(agentCalls) < MaxRuns /\ OnCronJob(cronJobs[i], reply))
       /\ UNCHANGED <<cliOtherVars, storeVars>>

SpecGateway == InitGateway /\ [][NextGateway]_vars

\* ---- _build_request_body over model names and max_tokens ----

\* Model names: a provider or antigravity prefix or none, a family, an ending
ModelNames ==
    {front \o stem \o ending :
        front \in {<<>>, <<"anthropic/">>, <<"Antigravity">>, <<"openai/", "antigravity">>},
        stem \in {<<>>, <<"claude", "sonnet", "4", "5">>, <<"claude", "opus", "4", "5">>,
                  <<"claude", "opus", "4", "6">>, <<"gemini", "3", "pro">>,
                  <<"Gemini", "3", "flash">>},
        ending \in {<<>>, <<"thinking">>, <<"Thinking">>, <<"THINKING">>, <<"preview">>,
                    <<"thinking", "Preview">>, <<"thinking", "low">>, <<"high">>,
                    <<"rethinking">>}}

\* max_tokens around the points where the budget and the output limit change
TokenLimits == {0, 1, 4095, 4096, 12287, 12288, 12289, 16384, 16385, 16386, 16387, 32768}

InitBody ==
    /\ callArgs \in [model : ModelNames, max_tokens : TokenLimits]
    /\ ProviderIdle
    /\ cpc = "start"
    /\ projectId = "configured-project"
    /\ projectCache = <<>>
    /\ discoveryPosts = <<>>
    /\ requestBody = NoBody
    /\ chatResult = NoResponse
    /\ chatRaised = None
    /\ StoreIdle /\ XformIdle /\ MetricsIdle /\ CliIdle /\ loginFlow = NoLogin
    /\ sse = NoStream

NextBody ==
    BuildRequestBody(projectId)
       /\ UNCHANGED <<providerVars, storeVars, xformVars, metricsVars, cliVars, loginFlow, sse>>

SpecBody == InitBody /\ [][NextBody]_vars

\* stream_chat after resp.raise_for_status(): the loop over the lines of a
\* body of up to MaxSseLines lines.
MaxSseLines == 4

InitStream ==
    /\ \E n \in 0..MaxSseLines : \E body \in [1..n -> SseLines] :
           sse = [lines |-> body, pos |-> 0, yielded |-> <<>>, pc |-> "streaming"]
    /\ ProviderIdle /\ ChatIdle /\ StoreIdle /\ XformIdle
    /\ MetricsIdle /\ loginFlow = NoLogin /\ CliIdle /\ callArgs = DefaultArgs

NextStream ==
    \/ StreamLine
       /\ UNCHANGED <<providerVars, chatVars, storeVars, xformVars,
                      metricsVars, loginFlow, cliVars, callArgs>>
    \/ StreamEnd
       /\ UNCHANGED <<providerVars, chatVars, storeVars, xformVars,
                      metricsVars, loginFlow, cliVars, callArgs>>

SpecStream == InitStream /\ [][NextStream]_vars

----------------------------------------------------------------------------
(* Properties of the retry / failover loop *)

IsPost(e)  == e.op = "POST"
IsSleep(e) == e.op = "SLEEP"
Posts  == SelectSeq(log, IsPost)
Sleeps == SelectSeq(log, IsSleep)

HasStatus(e, statuses) ==
    e.op = "POST" /\ e.reply.kind = "http" /\ e.reply.status \in statuses

EndpointIndex(ep) == CHOOSE i \in DOMAIN Endpoints : Endpoints[i] = ep

\* C1: when every POST so far was answered 403 or 404, the provider has
\* made one POST per endpoint, in list order, and has not slept; it never
\* returns, and it has raised exactly when the POSTs number len(endpoints),
\* the error raised being the last endpoint's status.
C1_FallbackExhaustion ==
    (\A i \in DOMAIN Posts : HasStatus(Posts[i], {403, 404})) =>
        /\ Sleeps = <<>>
        /\ Len(Posts) <= Len(Endpoints)
        /\ \A i \in DOMAIN Posts : Posts[i].ep = Endpoints[i] /\ Posts[i].attempt = 0
        /\ rpc # "returned"
        /\ rpc = "raised" <=> Len(Posts) = Len(Endpoints)
        /\ rpc = "raised" =>
             raised = HTTPStatusError(Posts[Len(Posts)].reply.status,
                                      Endpoints[Len(Endpoints)])

\* All three endpoints answered 403 or 404 (both occur) and the call raised.
C1_Witness ==
    /\ rpc = "raised"
    /\ Len(Endpoints) = 3
    /\ Len(log) = 3
    /\ \A i \in DOMAIN log : HasStatus(log[i], {403, 404})
    /\ \E i, j \in DOMAIN log : log[i].reply.status = 403 /\ log[j].reply.status = 404

\* C2: when the replies so far are k retryable statuses (k <= MAX_RETRIES - 1)
\* followed by a 2xx, the call has returned that 2xx, every POST went to the
\* first endpoint, and POSTs and sleeps alternate: k sleeps, the i-th (from 0)
\* of RETRY_BASE_DELAY * 2^i seconds when the reply had no Retry-After header.
C2_RetryThenSuccess ==
    \A k \in 0..(MAX_RETRIES - 1) :
        ( /\ Len(Posts) = k + 1
          /\ \A i \in 1..k : HasStatus(Posts[i], {429, 500, 503})
          /\ HasStatus(Posts[k + 1], 200..299) ) =>
            /\ rpc = "returned"
            /\ response.status = Posts[k + 1].reply.status
            /\ response.ep = Endpoints[1]
            /\ \A i \in DOMAIN Posts : Posts[i].ep = Endpoints[1]
            /\ Len(Sleeps) = k
            /\ Len(log) = 2 * k + 1
            /\ \A i \in 1..k :
                 /\ log[2 * i - 1] = Posts[i]
                 /\ log[2 * i] = Sleeps[i]
                 /\ Posts[i].reply.retryAfter.kind = "absent" =>
                        Sleeps[i].delay = RETRY_BASE_DELAY * Pow2(i - 1)

\* Two retryable replies without Retry-After, then 200: slept 1 s and 2 s.
C2_Witness ==
    /\ rpc = "returned"
    /\ Len(Posts) = 3
    /\ HasStatus(Posts[1], {429}) /\ HasStatus(Posts[2], {503})
    /\ Posts[1].reply.retryAfter.kind = "absent"
    /\ Posts[2].reply.retryAfter.kind = "absent"
    /\ Len(Sleeps) = 2 /\ Sleeps[1].delay = 1 /\ Sleeps[2].delay = 2
    /\ Len(Endpoints) = 3

----------------------------------------------------------------------------
(* Properties of chat() *)

\* C3: a POST answered 403 or 404 is the last thing done on its endpoint:
\* what follows it at once is a POST to the next endpoint of the list (no
\* sleep, no retry), or the raise when the list is used up.  And when chat()
\* ends after a 2xx, that 2xx is the first one, it ended the request loop,
\* and the reply of chat() is parsed from that endpoint's response.
C3_FallbackThenFirstSuccess ==
    /\ \A j \in DOMAIN log :
         HasStatus(log[j], {403, 404}) =>
            LET i == EndpointIndex(log[j].ep) IN
            /\ \A m \in DOMAIN log : m > j => log[m].ep # log[j].ep
            /\ j < Len(log) =>
                 /\ i < Len(Endpoints)
                 /\ log[j + 1].op = "POST"
                 /\ log[j + 1].ep = Endpoints[i + 1]
                 /\ log[j + 1].attempt = 0
            /\ j = Len(log) =>
                 IF i < Len(Endpoints)
                 THEN rpc = "loop" /\ epIdx = i + 1 /\ attempt = 0
                 ELSE rpc = "raised"
            /\ log[j].attempt = 0 =>
                 \A m \in DOMAIN log : m # j => log[m].ep # log[j].ep
    /\ \A j \in DOMAIN log :
         HasStatus(log[j], 200..299) =>
            /\ j = Len(log)
            /\ rpc = "returned"
            /\ response.status = log[j].reply.status
            /\ response.ep = log[j].ep
            /\ cpc = "done" =>
                 /\ chatRaised = None
                 /\ response.body \in {"candidate", "no-candidates"} =>
                        chatResult.ep = log[j].ep
                 /\ response.body = "candidate" => chatResult.finish_reason = "stop"

\* 403 on the first endpoint, 404 on the second, 200 on the third, and
\* chat() returned the reply parsed from the third endpoint's response.
C3_Witness ==
    /\ cpc = "done"
    /\ Len(Endpoints) = 3
    /\ Len(log) = 3
    /\ HasStatus(log[1], {403}) /\ HasStatus(log[2], {404}) /\ HasStatus(log[3], {200})
    /\ chatResult.ep = Endpoints[3]
    /\ chatResult.finish_reason = "stop"

----------------------------------------------------------------------------
(* Properties of get_valid_token *)

\* The call of caller c has ended, and it was made on credential creds
\* when that credential was inside the expiry buffer
EndedOnExpired(c, creds) ==
    /\ caller[c].pc = "returned"
    /\ caller[c].preCreds = creds
    /\ caller[c].at >= creds.expires_at - 300

\* C4: when two get_valid_token calls found the same expired credential
\* active and both have returned, one refresh request was sent for the two
\* of them and both returned the same, new, stored access token.
C4_OneRefreshForTwoCallers ==
    LET creds == caller[1].preCreds IN
        (creds # NoCreds /\ EndedOnExpired(1, creds) /\ EndedOnExpired(2, creds)) =>
            /\ Len(tokenPosts) - Min(caller[1].prePosts, caller[2].prePosts) = 1
            /\ caller[1].ret = caller[2].ret
            /\ caller[1].ret # creds.access_token
            /\ caller[1].ret = ActiveCredentials.access_token

\* C6: a get_valid_token call that finds no credential for the active email
\* (no file was loaded, or the accounts were logged out) raises the
\* not-authenticated RuntimeError, sends no request to the token endpoint
\* and leaves memory and file as they were.
C6_NoCredentialNoRequest ==
    /\ (caller[1].pc # "idle" /\ caller[1].preCreds = NoCreds) =>
          /\ caller[1].pc = "raised"
          /\ caller[1].exc = "RuntimeError"
          /\ opLog.op = "get_valid_token"
    /\ ( /\ opLog.op = "get_valid_token"
         /\ ~ \E i \in DOMAIN opLog.pre.accounts :
                 opLog.pre.accounts[i].key = opLog.pre.active ) =>
          /\ caller[1].pc \in {"raised", "idle"}
          /\ caller[1].pc = "raised" => caller[1].exc = "RuntimeError"
          /\ Store = opLog.pre
          /\ Len(tokenPosts) = opLog.prePosts

\* Accounts were stored and then logged out, the file is gone, and the call
\* raised.
C6_Witness ==
    /\ caller[1].pc = "raised"
    /\ caller[1].preCreds = NoCreds
    /\ issued > 0
    /\ accounts = <<>>
    /\ ~credFile.exists
    /\ tokenPosts = <<>>

\* The step in which caller c enters get_valid_token, and the step in which
\* its token request is answered
CallStep(c)  == caller[c].pc = "idle" /\ caller'[c].pc # "idle"
ReplyStep(c) == caller[c].pc = "posting" /\ caller'[c].pc # "posting"

RefreshGrant(creds) ==
    [grant_type |-> "refresh_token", refresh_token |-> creds.refresh_token]

SentGrant(c, creds) ==
    /\ Len(tokenPosts') = Len(tokenPosts) + 1
    /\ SubSeq(tokenPosts', 1, Len(tokenPosts)) = tokenPosts
    /\ tokenPosts'[Len(tokenPosts')] = [by |-> c] @@ RefreshGrant(creds)

\* What a call on a credential outside the expiry buffer does
ReturnsStoredToken(c, creds) ==
    /\ caller'[c].pc = "returned"
    /\ caller'[c].ret = creds.access_token
    /\ tokenPosts' = tokenPosts
    /\ Store' = Store

\* What the answered refresh of caller c leaves, for a 2xx reply with an
\* access_token and a usable expires_in
StoresNewToken(c) ==
    LET old   == DictGet(accounts, caller[c].key)
        new   == DictGet(accounts', caller[c].key)
        reply == caller'[c].reply
    IN /\ caller'[c].pc = "returned"
       /\ caller'[c].ret = new.access_token
       /\ new.access_token # old.access_token
       /\ new.expires_at = now + (IF reply.hasExpiresIn THEN reply.expiresIn ELSE 3600)
       /\ ~reply.hasRefresh => new.refresh_token = old.refresh_token
       /\ reply.hasRefresh => new.refresh_token # old.refresh_token
       /\ new.key = old.key /\ new.email = old.email
       /\ \A i \in DOMAIN accounts :
            accounts[i].key # caller[c].key => accounts'[i] = accounts[i]
       /\ Len(accounts') = Len(accounts)
       /\ activeEmail' = activeEmail
       /\ credFile' = [exists |-> TRUE, mode |-> "0600", active |-> activeEmail,
                       accounts |-> accounts']
       /\ tokenPosts' = tokenPosts

\* C7 as stated: every call on an active credential with now >= expires_at
\* - 300 POSTs the refresh_token grant, and the answered request stores the
\* new token, persists and returns it; a call with now < expires_at - 300
\* returns the stored token with no request and no change of the store.
C7_AsStated ==
    [][\A c \in Callers :
          /\ (CallStep(c) /\ ActiveCredentials # NoCreds) =>
                IF now >= ActiveCredentials.expires_at - 300
                THEN /\ SentGrant(c, ActiveCredentials)
                     /\ caller'[c].pc = "posting"
                ELSE ReturnsStoredToken(c, ActiveCredentials)
          /\ ReplyStep(c) => StoresNewToken(c)]_vars

\* C7, amended: with now >= expires_at - 300 the call POSTs the
\* refresh_token grant if the credential has a refresh token and raises
\* without a request if it has none; the answered request stores the new
\* token, persists and returns it when the reply is a 2xx with an
\* access_token and a usable expires_in, and otherwise raises and writes
\* nothing to the file; with now < expires_at - 300 the call returns the
\* stored token with no request and no change of the store.  No request is
\* sent in any other step.
C7_RefreshWhenInBuffer ==
    [][/\ \A c \in Callers :
            /\ (CallStep(c) /\ ActiveCredentials # NoCreds) =>
                  IF now >= ActiveCredentials.expires_at - 300
                  THEN IF ActiveCredentials.refresh_token # 0
                       THEN /\ SentGrant(c, ActiveCredentials)
                            /\ caller'[c].pc = "posting"
                            /\ Store' = Store
                       ELSE /\ caller'[c].pc = "raised"
                            /\ tokenPosts' = tokenPosts
                            /\ Store' = Store
                  ELSE ReturnsStoredToken(c, ActiveCredentials)
            /\ ReplyStep(c) =>
                  IF caller'[c].reply.kind = "ok"
                  THEN StoresNewToken(c)
                  ELSE /\ caller'[c].pc = "raised"
                       /\ credFile' = credFile
                       /\ tokenPosts' = tokenPosts
       /\ tokenPosts' # tokenPosts =>
            \E c \in Callers :
                /\ CallStep(c)
                /\ ActiveCredentials # NoCreds
                /\ now >= ActiveCredentials.expires_at - 300]_vars

\* A call made exactly at expires_at - 300 was refreshed: it returned the
\* token the store and the file now hold.
C7_Witness ==
    \E c \in Callers :
        /\ caller[c].pc = "returned"
        /\ caller[c].reply.kind = "ok"
        /\ caller[c].at = caller[c].preCreds.expires_at - 300
        /\ caller[c].ret = ActiveCredentials.access_token
        /\ caller[c].ret # caller[c].preCreds.access_token
        /\ credFile.accounts = accounts

----------------------------------------------------------------------------
(* Properties of logout *)

KeySet(accts) == {accts[i].key : i \in DOMAIN accts}

\* The accounts logout(arg) is to remove from a store
LogoutTarget(pre, arg) ==
    IF arg = "*" THEN KeySet(pre.accounts)
    ELSE IF arg = None THEN {pre.active} \cap KeySet(pre.accounts)
    ELSE {arg} \cap KeySet(pre.accounts)

\* C10: after logout(arg) the accounts are those of before without the
\* active one (arg None), without arg (an email) or none at all ("*"), the
\* others untouched; the file is gone when no account is left and else holds
\* the store; and when the active account was removed the active email is
\* one of the remaining accounts, or empty when none remains.  (An arg of
\* "" is no email and is left out.)
C10_Logout ==
    (opLog.op = "logout" /\ opLog.arg # "") =>
        LET pre    == opLog.pre
            target == LogoutTarget(pre, opLog.arg)
        IN /\ KeySet(accounts) = KeySet(pre.accounts) \ target
           /\ \A i \in DOMAIN accounts :
                \E j \in DOMAIN pre.accounts : accounts[i] = pre.accounts[j]
           /\ IF accounts = <<>>
              THEN ~credFile.exists
              ELSE /\ credFile.exists
                   /\ credFile.accounts = accounts
                   /\ credFile.active = activeEmail
           /\ IF pre.active \in target
              THEN IF accounts = <<>> THEN activeEmail = ""
                   ELSE activeEmail \in KeySet(accounts)
              ELSE activeEmail = pre.active

----------------------------------------------------------------------------
(* Properties of chat() as a whole *)

\* chat() has ended without a parsed candidate: a call of the try block
\* raised, or the 2xx body could not be read
ChatFailed ==
    \/ rpc # "returned"
    \/ \E c \in Callers : caller[c].pc = "raised"
    \/ response.body \in {"not-json", "malformed"}

\* C5: chat() lets no exception out, and when it has ended after a failure
\* of authentication, of the request body, of the retry loop (a
\* non-retryable status and all endpoints used up included) or of the
\* parsing, what it returned is an LLMResponse with finish_reason "error".
C5_ChatReturnsErrors ==
    /\ chatRaised = None
    /\ cpc = "done" =>
         /\ chatResult.finish_reason \in {"stop", "error"}
         /\ ChatFailed => chatResult.finish_reason = "error" /\ chatResult.ep = None

\* All three endpoints refused the connection; chat() returned the error.
C5_Witness ==
    /\ cpc = "done"
    /\ rpc = "raised"
    /\ raised.kind = "ConnectError"
    /\ Len(Endpoints) = 3
    /\ Len(Posts) = 3
    /\ chatResult.finish_reason = "error"
    /\ chatRaised = None

----------------------------------------------------------------------------
(* Properties of messages_to_gemini *)

PartTypes(entry) == {entry.parts[i].type : i \in DOMAIN entry.parts}

IsToolResultTurn(entry) == entry.role = "user" /\ "functionResponse" \in PartTypes(entry)
IsUserTextTurn(entry)   == entry.role = "user" /\ "text" \in PartTypes(entry)
IsOkTurn(entry) == entry = [role |-> "model", parts |-> <<[type |-> "text", value |-> "OK."]>>]

\* C8: no two consecutive entries of the output have the same role.
C8_RolesAlternate ==
    xpc = "done" =>
        \A i \in 1..(Len(contents) - 1) : contents[i].role # contents[i + 1].role

\* User text, two tool results and an assistant turn: the tool results are
\* merged into one entry, which the placeholder separates from the user text.
C8_Witness ==
    /\ xpc = "done"
    /\ Len(messages) = 4
    /\ Len(contents) = 4
    /\ IsUserTextTurn(contents[1])
    /\ IsOkTurn(contents[2])
    /\ IsToolResultTurn(contents[3]) /\ Len(contents[3].parts) = 2
    /\ contents[4].role = "model"

\* The places where a user text turn and a tool-result turn meet in the
\* entries of the first loop
MixedNeighbours(raw) ==
    {i \in 1..(Len(raw) - 1) :
        \/ IsUserTextTurn(raw[i]) /\ IsToolResultTurn(raw[i + 1])
        \/ IsToolResultTurn(raw[i]) /\ IsUserTextTurn(raw[i + 1])}

\* The places of the output where an "OK." model entry stands between a user
\* text turn and a tool-result turn
OkBetween(out) ==
    {i \in 2..(Len(out) - 1) :
        /\ IsOkTurn(out[i])
        /\ \/ IsUserTextTurn(out[i - 1]) /\ IsToolResultTurn(out[i + 1])
           \/ IsToolResultTurn(out[i - 1]) /\ IsUserTextTurn(out[i + 1])}

\* C9: no entry of the output has a functionResponse part and a text part,
\* and for every place where a user text turn and a tool-result turn are
\* neighbours the output has an "OK." model entry between a user text entry
\* and a tool-result entry.
C9_NoMixedParts ==
    xpc = "done" =>
        /\ \A i \in DOMAIN contents :
             ~({"functionResponse", "text"} \subseteq PartTypes(contents[i]))
        /\ Cardinality(OkBetween(contents))
             = Cardinality(MixedNeighbours(RawContents(messages)))

\* A tool result followed by user text, and user text followed by a tool
\* result: two placeholders.
C9_Witness ==
    /\ xpc = "done"
    /\ Cardinality(OkBetween(contents)) = 2
    /\ IsToolResultTurn(contents[1])
    /\ IsOkTurn(contents[2])
    /\ IsUserTextTurn(contents[3])

----------------------------------------------------------------------------
(* Properties of the credentials file *)

FileIsPrivate == credFile.exists /\ credFile.mode = "0600"

\* C11: after a login that returned, a switch that returned True, a logout
\* that left accounts, the load of a legacy file (its migration) and a
\* refresh that returned a token, the credentials file exists and its mode
\* is 0600, whatever the mode of the file before.
C11_FileModeAfterSave ==
    /\ (opLog.op = "login" /\ opLog.result = "returned") => FileIsPrivate
    /\ (opLog.op = "switch" /\ opLog.result = "True") => FileIsPrivate
    /\ (opLog.op = "logout" /\ accounts # <<>>) => FileIsPrivate
    /\ (opLog.op = "load" /\ opLog.pre.file.exists /\ opLog.pre.file.active = None) =>
          FileIsPrivate
    /\ (opLog.op = "get_valid_token" /\ caller[1].pc = "returned"
          /\ caller[1].reply.kind = "ok") => FileIsPrivate

\* A legacy file of mode 0644 without an email was loaded: the credential is
\* stored under "unknown" in a file of mode 0600.
C11_Witness ==
    /\ opLog.op = "load"
    /\ opLog.pre.file.exists
    /\ opLog.pre.file.active = None
    /\ opLog.pre.file.mode = "0644"
    /\ credFile.exists
    /\ credFile.mode = "0600"
    /\ credFile.active = "unknown"
    /\ Len(accounts) = 1

----------------------------------------------------------------------------
(* Properties of the request headers and of project discovery *)

ContentPosts == {i \in DOMAIN log : log[i].op = "POST"}

BareHeaders == {"User-Agent", "Authorization"}

\* C12, as stated: every content request, generateContent from chat and
\* streamGenerateContent from stream_chat, carries exactly User-Agent and
\* Authorization.
C12_AsStated ==
    \A i \in ContentPosts : log[i].headers = BareHeaders

\* C12: a generateContent request from chat carries exactly User-Agent and
\* Authorization; a streamGenerateContent request from stream_chat carries
\* these two and Accept, nothing else; no content request carries
\* X-Goog-Api-Client or Client-Metadata, and every loadCodeAssist request
\* carries both, with User-Agent and Authorization.
C12_ContentHeaders ==
    /\ \A i \in ContentPosts :
          /\ log[i].path \in {GENERATE_CONTENT_PATH, STREAM_GENERATE_CONTENT_PATH}
          /\ log[i].path = GENERATE_CONTENT_PATH => log[i].headers = BareHeaders
          /\ log[i].path = STREAM_GENERATE_CONTENT_PATH
                => log[i].headers = BareHeaders \cup {"Accept"}
          /\ log[i].headers \cap {"X-Goog-Api-Client", "Client-Metadata"} = {}
    /\ \A i \in DOMAIN discoveryPosts :
          /\ discoveryPosts[i].path = LOAD_CODE_ASSIST_PATH
          /\ BareHeaders \cup {"X-Goog-Api-Client", "Client-Metadata"}
                \subseteq discoveryPosts[i].headers

\* A chat request, a stream request and a discovery request have all been sent
C12_Witness ==
    /\ \E i \in ContentPosts : log[i].path = GENERATE_CONTENT_PATH
    /\ \E i \in ContentPosts : log[i].path = STREAM_GENERATE_CONTENT_PATH
    /\ discoveryPosts # <<>>

\* The loadCodeAssist requests this step sent
NewDiscovery == SubSeq(discoveryPosts', Len(discoveryPosts) + 1, Len(discoveryPosts'))

\* The project id the cache holds for an email after this step
CachedAfter(email) == CacheGet(projectCache', email)

\* A discovery: prod, daily, autopush in this order, up to the first reply
\* with a project, and the project found, or the default one, is cached
DiscoveryStep ==
    LET sent == NewDiscovery
        n    == Len(sent)
    IN  /\ n \in 1..3
        /\ \A i \in 1..n : sent[i].ep = <<"prod", "daily", "autopush">>[i]
        /\ \A i \in 1..(n - 1) : ~sent[i].found
        /\ sent[n].found \/ n = 3
        /\ ~CacheHas(projectCache, Email)
        /\ Len(projectCache') = Len(projectCache) + 1
        /\ CachedAfter(Email) = (IF sent[n].found THEN DiscoveredProject
                                 ELSE DEFAULT_PROJECT_ID)

\* C13: with no configured project id the first request for an email calls
\* loadCodeAssist on prod, daily, autopush, stopping at the first reply with
\* a project; the project found (the default one when all three fail) is
\* cached for the email; a later request for the email sends no
\* loadCodeAssist and uses the same project id.
C13_ProjectDiscovery ==
    [][ /\ discoveryPosts' # discoveryPosts => projectId = "" /\ DiscoveryStep
        /\ \A i \in DOMAIN projectCache :
              i \in DOMAIN projectCache' /\ projectCache'[i] = projectCache[i]
        /\ projectCache' # projectCache => discoveryPosts' # discoveryPosts
        /\ (requestBody' # requestBody /\ requestBody' # NoBody)
              => requestBody'.project = (IF projectId # "" THEN projectId
                                         ELSE CachedAfter(Email))
        /\ \A i \in DOMAIN log' \ DOMAIN log :
              log'[i].op = "POST" => log'[i].project = requestBody.project
      ]_vars

\* Two requests for one email carried the discovered project after one
\* discovery, and a request of another email the default one after three
\* failed loadCodeAssist calls
C13_Witness ==
    /\ projectId = ""
    /\ Len(log) = 3
    /\ \A i \in 1..3 : log[i].op = "POST"
    /\ \E i, j \in 1..3 : /\ i < j
                          /\ log[i].project = log[j].project
                          /\ log[i].path # log[j].path
    /\ \E i \in 1..3 : log[i].project = DEFAULT_PROJECT_ID
    /\ \E i \in 1..3 : log[i].project = DiscoveredProject
    /\ Len(projectCache) = 2
    /\ Len(discoveryPosts) = 4

----------------------------------------------------------------------------
(* Properties of the metrics collector *)

\* The events of the lines of a file that are JSON, in file order
RECURSIVE ValidLines(_)
ValidLines(chunks) ==
    IF chunks = <<>> THEN <<>>
    ELSE IF Head(chunks).kind = "json"
         THEN <<Head(chunks).ev>> \o ValidLines(Tail(chunks))
         ELSE ValidLines(Tail(chunks))

\* C14: reading a metrics file that holds a corrupt line skips only that
\* line: every valid line before and after it is returned, in file order.
C14_CorruptLineSkipped ==
    (readResult # NoRead /\ readResult.limit = 0)
        => readResult.lines = ValidLines(metricsFiles[readResult.path])

\* The events written to a file, in file order
Written(p) == [i \in DOMAIN metricsFiles[p] |-> metricsFiles[p][i].ev]

\* C15: under any interleaving of concurrent record_* calls each metrics
\* file consists only of complete lines, one per recorded event, and every
\* line a reader sees is valid JSON.
C15_CompleteLines ==
    /\ \A p \in MetricsPaths :
          /\ \A i \in DOMAIN metricsFiles[p] :
                /\ metricsFiles[p][i].kind = "json"
                /\ events[Written(p)[i]].path = p
                /\ \A j \in DOMAIN metricsFiles[p] : Written(p)[i] = Written(p)[j] => i = j
          /\ ReadFrom(metricsFiles[p], <<>>) = Written(p)
    /\ \A e \in DOMAIN events :
          events[e].state = "written"
              <=> \E i \in DOMAIN metricsFiles[events[e].path] :
                     Written(events[e].path)[i] = e
    /\ (readResult # NoRead /\ readResult.limit = 0)
          => \E n \in 0..Len(Written(readResult.path)) :
                readResult.lines = SubSeq(Written(readResult.path), 1, n)

\* Two calls had the same file open at once; the one that came second has
\* written its line, the first has not yet, and a reader has read the file
C15_Witness ==
    /\ writer[1].pc = "open"
    /\ \E i \in DOMAIN metricsFiles[writer[1].path] :
          Written(writer[1].path)[i] > writer[1].ev
    /\ readResult.path = writer[1].path
    /\ readResult.lines = Written(writer[1].path)

----------------------------------------------------------------------------
(* Properties of the cron callback and of the commands *)

IsSet(v) == v # None /\ v # ""

\* What one run of on_cron_job for a job adds to the process_direct calls
\* and to the bus
RunOf(job) ==
    LET p    == job.payload
        ch   == IF IsSet(p.channel) THEN p.channel ELSE "cli"
        n    == Len(agentCalls) + 1
    IN  /\ Len(agentCalls') = n
        /\ SubSeq(agentCalls', 1, n - 1) = agentCalls
        /\ agentCalls'[n].session_key = <<"cron", job.id>>
        /\ agentCalls'[n].channel = ch
        /\ agentCalls'[n].chat_id = (IF IsSet(p.to) THEN p.to ELSE "direct")
        /\ IF p.deliver /\ IsSet(p.to)
           THEN outbound' = Append(outbound, [channel |-> ch, chat_id |-> p.to,
                                              content |-> agentCalls'[n].reply])
           ELSE outbound' = outbound

\* C16: each run of on_cron_job calls agent.process_direct exactly once, with
\* session_key "cron:<job.id>", channel = payload.channel or "cli" and
\* chat_id = payload.to or "direct", and publishes exactly one
\* OutboundMessage (that channel, chat_id = payload.to, content = the reply)
\* if and only if payload.deliver and payload.to are both set, else nothing.
C16_CronCallback ==
    [][\E i \in DOMAIN cronJobs : RunOf(cronJobs[i])]_<<agentCalls, outbound>>

\* Three runs, one of them published on the default channel
C16_Witness ==
    /\ Len(agentCalls) = 3
    /\ Len(outbound) = 1
    /\ outbound[1].channel = "cli"
    /\ outbound[1].content = "reply"
    /\ \E i \in 1..3 : agentCalls[i].chat_id = "direct"

\* The command of this step is one of the user errors the claim names
UserError ==
    \/ cli'.cmd = "cron add" /\ cli'.arg = <<None, None, None>>
    \/ /\ cli'.cmd \in {"cron remove", "cron enable", "cron run"}
       /\ cli'.arg[1] \notin JobIds(cronJobs)
    \/ cli'.cmd = "auth switch" /\ ~HasKey(accounts, cli'.arg[1])

\* C17: cron add with none of --every/--cron/--at, cron remove / enable /
\* run with an unknown job id and auth switch with an unknown email exit
\* with status 1 and leave the stored jobs and credentials unchanged.
C17_UserErrorsExitOne ==
    [][UserError => /\ cli'.exit = 1
                    /\ cronJobs' = cronJobs
                    /\ Store' = Store]_cli

----------------------------------------------------------------------------
(* Properties of login *)

\* A callback that carries an error parameter, or not the generated state
BadCallback(q) == q.error # None \/ q.state # loginFlow.state

\* C18: login() stores a credential only after a callback whose state equals
\* the generated state; a callback with a missing or different state, or
\* with an error parameter, makes login fail without exchanging a code,
\* adding or replacing an account, changing the active account or writing
\* the file.
C18_StateChecked ==
    LET qs == loginFlow.queries
    IN  /\ loginFlow.exchanges > 0
            => /\ qs # <<>>
               /\ ~BadCallback(qs[Len(qs)])
               /\ qs[Len(qs)].code # None
        /\ loginFlow.pc = "returned" => loginFlow.exchanges = 1
        /\ loginFlow.pc \in {"waiting", "test", "closed", "raised"}
              => Store = loginFlow.pre
        /\ \A i \in DOMAIN qs :
              BadCallback(qs[i])
                  => /\ i = Len(qs)
                     /\ loginFlow.pc \in {"test", "closed", "raised"}
                     /\ loginFlow.error # None
                     /\ loginFlow.exchanges = 0
                     /\ Store = loginFlow.pre

\* A login with an account stored has failed on a callback that carried a
\* code and another state
C18_Witness ==
    /\ loginFlow.pc = "raised"
    /\ loginFlow.pre.accounts # <<>>
    /\ loginFlow.queries # <<>>
    /\ LET q == loginFlow.queries[Len(loginFlow.queries)]
       IN  q.error = None /\ q.state = "state-2" /\ q.code # None

\* C19: login() always terminates: after the first callback, or after the
\* 120 s timeout with a failure.
C19_LoginTerminates ==
    (loginFlow.pc = "waiting") ~> (loginFlow.pc \in {"returned", "raised"})

----------------------------------------------------------------------------
(* Properties of the request body *)

\* What the claim says of the body built, for a given reading of "the
\* resolved name ends in -thinking"
ThinkingRule(endsInThinking) ==
    LET gc == requestBody.generationConfig
        mt == callArgs.max_tokens
        B  == IF 8192 >= mt \div 2 THEN 8192 ELSE mt \div 2
    IN  IF endsInThinking
        THEN /\ "thinkingConfig" \in DOMAIN gc
             /\ gc.thinkingConfig.includeThoughts = TRUE
             /\ gc.thinkingConfig.thinkingBudget = B
             /\ gc.maxOutputTokens = (IF mt >= B + 4096 THEN mt ELSE B + 4096)
             /\ gc.maxOutputTokens >= B + 4096
        ELSE /\ "thinkingConfig" \notin DOMAIN gc
             /\ gc.maxOutputTokens = mt

\* C20, as stated: the models with thinkingConfig are those whose resolved
\* name ends in -thinking, letter for letter.
C20_AsStated ==
    requestBody # NoBody
        => ThinkingRule(/\ Len(requestBody.model) >= 2
                        /\ requestBody.model[Len(requestBody.model)] = "thinking")

\* C20: for a model whose resolved name ends in -thinking, in any mix of
\* upper and lower case, the body has thinkingConfig with includeThoughts
\* true and thinkingBudget B = max(8192, max_tokens div 2), and
\* maxOutputTokens = max(max_tokens, B + 4096) >= B + 4096; for every other
\* model it has no thinkingConfig and maxOutputTokens = max_tokens.
C20_ThinkingConfig ==
    requestBody # NoBody
        => ThinkingRule(/\ Len(requestBody.model) >= 2
                        /\ requestBody.model[Len(requestBody.model)]
                              \in {"thinking", "Thinking", "THINKING"})

\* A body for an alias of a thinking model and a max_tokens above the
\* point where the budget is half of it
C20_Witness ==
    /\ requestBody # NoBody
    /\ callArgs.model = <<"anthropic/", "claude", "opus", "4", "5">>
    /\ callArgs.max_tokens = 32768
    /\ requestBody.model = <<"claude", "opus", "4", "6", "thinking">>
    /\ requestBody.generationConfig.thinkingConfig.thinkingBudget = 16384

----------------------------------------------------------------------------
(* Further properties of the retry / failover loop *)

PostsOn(i) == SelectSeq(Posts, LAMBDA e : e.ep = Endpoints[i])

LastPost == Posts[Len(Posts)]

\* The error httpx or raise_for_status produces for the reply of a POST.
ErrorOf(e) ==
    IF e.reply.kind = "http" THEN HTTPStatusError(e.reply.status, e.ep)
    ELSE TransportError(e.reply.kind, e.ep)

\* C21: an endpoint all of whose replies so far were 429, 500 or 503 has
\* received at most 3 POSTs, numbered 0, 1, 2; while it has fewer than 3 the
\* loop is still on it; once it has 3 the loop is past it and has not raised
\* on its account, unless it is the last endpoint of the list, in which case
\* the call has raised that endpoint's last status.
C21_RetryableExhaustion ==
    \A i \in DOMAIN Endpoints :
        LET mine == PostsOn(i) IN
        (mine # <<>> /\ \A j \in DOMAIN mine : HasStatus(mine[j], {429, 500, 503})) =>
            /\ Len(mine) <= 3
            /\ \A j \in DOMAIN mine : mine[j].attempt = j - 1
            /\ Len(mine) < 3 => rpc = "loop" /\ epIdx = i
            /\ (Len(mine) = 3 /\ i < Len(Endpoints)) =>
                   /\ epIdx > i
                   /\ rpc = "raised" => LastPost.ep # Endpoints[i]
            /\ (Len(mine) = 3 /\ i = Len(Endpoints)) =>
                   /\ rpc = "raised"
                   /\ raised = HTTPStatusError(mine[3].reply.status, Endpoints[i])

\* The first of three endpoints answered three retryable statuses, not all
\* the same, and the loop is on
\* the second endpoint, nothing raised.
C21_Witness ==
    /\ Len(Endpoints) = 3
    /\ Len(Posts) = 3
    /\ \A j \in 1..3 : Posts[j].ep = Endpoints[1]
    /\ \A j \in 1..3 : HasStatus(Posts[j], {429, 500, 503})
    /\ Posts[1].reply.status # Posts[3].reply.status
    /\ rpc = "loop"
    /\ epIdx = 2

\* C22: a POST answered with a status that is neither 2xx, nor 429, 500 or
\* 503, nor 403 or 404 is the last entry of the log (no POST and no sleep
\* follows it) and the call has raised the error of that status.
C22_ImmediateRaise ==
    \A i \in DOMAIN log :
        ( /\ IsPost(log[i])
          /\ log[i].reply.kind = "http"
          /\ log[i].reply.status \notin (200..299) \cup {429, 500, 503} \cup {403, 404} ) =>
            /\ i = Len(log)
            /\ rpc = "raised"
            /\ raised = HTTPStatusError(log[i].reply.status, log[i].ep)

\* A 429 and its sleep, then a 401 on the first of three endpoints: raised
\* with two endpoints untried and two attempts left.
C22_Witness ==
    /\ Len(Endpoints) = 3
    /\ Len(log) = 3
    /\ HasStatus(log[1], {429})
    /\ IsSleep(log[2])
    /\ HasStatus(log[3], {401})
    /\ log[3].ep = Endpoints[1]
    /\ rpc = "raised"

\* C23: a POST that failed with a connection error or a connect timeout is
\* followed in the log, if by anything, by attempt 0 on the next endpoint of
\* the list, never by a sleep or another POST to the same endpoint; when
\* nothing follows, the loop stands at attempt 0 of the next endpoint, or the
\* endpoint was the last and the call has raised that error.
C23_ConnectionErrorSkips ==
    \A i \in DOMAIN log :
        ( /\ IsPost(log[i])
          /\ log[i].reply.kind \in {"ConnectError", "ConnectTimeout"} ) =>
            LET k == EndpointIndex(log[i].ep) IN
            IF i < Len(log)
            THEN /\ k < Len(Endpoints)
                 /\ IsPost(log[i + 1])
                 /\ log[i + 1].ep = Endpoints[k + 1]
                 /\ log[i + 1].attempt = 0
            ELSE IF k < Len(Endpoints)
            THEN rpc = "loop" /\ epIdx = k + 1 /\ attempt = 0
            ELSE rpc = "raised" /\ raised = TransportError(log[i].reply.kind, log[i].ep)

\* A 500 and its sleep, then a connect timeout at attempt 1 of the first
\* endpoint, then a POST to the second endpoint.
C23_Witness ==
    /\ Len(Endpoints) = 3
    /\ Len(log) >= 4
    /\ HasStatus(log[1], {500})
    /\ IsSleep(log[2])
    /\ IsPost(log[3]) /\ log[3].reply.kind = "ConnectTimeout"
    /\ log[3].ep = Endpoints[1] /\ log[3].attempt = 1
    /\ IsPost(log[4]) /\ log[4].ep = Endpoints[2]

\* C24: the endpoint list is the configured endpoint followed, when it is
\* one of daily, autopush and prod, by the other two in the order daily,
\* autopush, prod, and is the configured endpoint alone otherwise; the POSTs
\* go to the endpoints of that list, in its order.
C24_EndpointList ==
    /\ Endpoints[1] = endpoint
    /\ Endpoints =
         IF endpoint = API_ENDPOINT_DAILY
         THEN <<API_ENDPOINT_DAILY, API_ENDPOINT_AUTOPUSH, API_ENDPOINT_PROD>>
         ELSE IF endpoint = API_ENDPOINT_AUTOPUSH
         THEN <<API_ENDPOINT_AUTOPUSH, API_ENDPOINT_DAILY, API_ENDPOINT_PROD>>
         ELSE IF endpoint = API_ENDPOINT_PROD
         THEN <<API_ENDPOINT_PROD, API_ENDPOINT_DAILY, API_ENDPOINT_AUTOPUSH>>
         ELSE <<endpoint>>
    /\ \A i, j \in DOMAIN Endpoints : i # j => Endpoints[i] # Endpoints[j]
    /\ \A i \in DOMAIN log : IsPost(log[i]) => log[i].ep \in Range(Endpoints)

\* Configured with autopush, the call went through autopush, daily and prod,
\* one POST each, and raised.
C24_Witness ==
    /\ endpoint = API_ENDPOINT_AUTOPUSH
    /\ Len(Posts) = 3
    /\ Posts[1].ep = API_ENDPOINT_AUTOPUSH
    /\ Posts[2].ep = API_ENDPOINT_DAILY
    /\ Posts[3].ep = API_ENDPOINT_PROD
    /\ rpc = "raised"

\* A custom endpoint was tried and, being alone in the list, the call raised
\* after its 404.
C24_WitnessCustom ==
    /\ endpoint = CustomEndpoint
    /\ Len(Posts) = 1
    /\ HasStatus(Posts[1], {404})
    /\ rpc = "raised"

\* C26: the call makes at most len(endpoints) * 3 POSTs and at most
\* len(endpoints) * 2 sleeps and is over when it has made that many POSTs;
\* the endpoints of successive POSTs and sleeps never go back in the list
\* (each entry of the log is on the endpoint of the one before it or on a
\* later one); it is over
\* only after a POST, having returned that POST's 2xx reply or raised that
\* POST's error.
C26_BoundedTermination ==
    /\ Len(Posts) <= Len(Endpoints) * 3
    /\ Len(Sleeps) <= Len(Endpoints) * 2
    /\ Len(Posts) = Len(Endpoints) * 3 => rpc \in {"returned", "raised"}
    /\ \A i \in 1..(Len(log) - 1) :
           EndpointIndex(log[i].ep) <= EndpointIndex(log[i + 1].ep)
    /\ rpc \in {"returned", "raised"} =>
           /\ log # <<>>
           /\ IsPost(log[Len(log)])
    /\ rpc = "returned" =>
           /\ HasStatus(log[Len(log)], 200..299)
           /\ response.status = log[Len(log)].reply.status
           /\ response.ep = log[Len(log)].ep
    /\ rpc = "raised" =>
           /\ ~HasStatus(log[Len(log)], 200..299)
           /\ raised = ErrorOf(log[Len(log)])

\* Nine POSTs and six sleeps over three endpoints, then the raise.
C26_Witness ==
    /\ Len(Endpoints) = 3
    /\ Len(Posts) = 9
    /\ Len(Sleeps) = 6
    /\ rpc = "raised"

\* A read timeout, which is not kept in last_error, was raised after an
\* earlier retryable reply had been kept there.
C26_WitnessDirectRaise ==
    /\ rpc = "raised"
    /\ raised.kind = "ReadTimeout"
    /\ lastError.kind = "HTTPStatusError"

----------------------------------------------------------------------------
(* Properties of the SSE loop *)

IsDataFrame(line) == line.prefix = "data: "
IsDoneFrame(line) == IsDataFrame(line) /\ line.payload \in {"[DONE]", " [DONE] "}
ValidJson(payload) == payload \in {"{text: a}", "{text: b}", "null"}
ObjectJson(payload) == payload \in {"{text: a}", "{text: b}"}

\* The lines read so far, and those of them before the first end marker
LinesRead == SubSeq(sse.lines, 1, sse.pos)

BeforeDone(lines) ==
    LET dones == {i \in DOMAIN lines : IsDoneFrame(lines[i])}
    IN IF dones = {} THEN lines
       ELSE SubSeq(lines, 1, (CHOOSE i \in dones : \A j \in dones : i <= j) - 1)

IsWellFormed(line) == IsDataFrame(line) /\ ValidJson(line.payload)

WellFormedFrames == SelectSeq(BeforeDone(LinesRead), IsWellFormed)

\* C25: the chunks yielded are those of the "data: " frames with a valid JSON
\* payload among the lines read before the first "data: [DONE]", one chunk
\* per frame and in the order of the frames; every other line is passed over
\* and the stream does not end on it, so that the loop is over only at the
\* end marker or at the end of the body, never by an exception; no line
\* after the end marker is read.
C25_StreamFrames ==
    /\ Len(sse.yielded) = Len(WellFormedFrames)
    /\ \A i \in DOMAIN sse.yielded :
           sse.yielded[i] = JsonLoads(WellFormedFrames[i].payload).text
    /\ sse.pc # "raised"
    /\ sse.pc = "done" <=> (sse.pos > 0 /\ IsDoneFrame(sse.lines[sse.pos]))
    /\ \A i \in 1..(sse.pos - 1) : ~IsDoneFrame(sse.lines[i])

\* The same with a well-formed frame taken to be one whose payload is a JSON
\* object, and only for bodies in which no frame read so far carried JSON of
\* another type.
C25_ObjectFrames ==
    (\A i \in 1..sse.pos :
        IsWellFormed(sse.lines[i]) => ObjectJson(sse.lines[i].payload)) =>
            C25_StreamFrames

\* An object frame, a frame that is not JSON, a comment line and a second
\* object frame gave two chunks.
C25_Witness ==
    /\ sse.pos = 4
    /\ sse.lines[2].payload = "oops"
    /\ sse.lines[3].prefix = ""
    /\ sse.yielded = <<"a", "b">>

\* A frame carrying null ended the stream before the object frame after it.
C25_WitnessRaised ==
    /\ sse.pc = "raised"
    /\ Len(sse.lines) >= 2
    /\ sse.lines[1].payload = "null"
    /\ ObjectJson(sse.lines[2].payload) /\ IsDataFrame(sse.lines[2])
    /\ sse.yielded = <<>>

----------------------------------------------------------------------------
(* Properties of the account store under login, switch, logout and refresh *)

\* C27: the active email is empty or a key of the accounts map, and when the
\* file exists the emails of the accounts written to it are the emails of
\* the accounts in memory.
C27_StoreConsistent ==
    /\ activeEmail = "" \/ activeEmail \in KeySet(accounts)
    /\ credFile.exists => KeySet(credFile.accounts) = KeySet(accounts)

\* Two accounts in memory and in the file after three logins, the last of
\* which made "b" the active one.
C27_Witness ==
    /\ KeySet(accounts) = {"a", "b"}
    /\ credFile.exists
    /\ activeEmail = "b"
    /\ opLog.op = "login"
    /\ issued = 3

\* After a refresh that raised on a reply whose expires_in is not a number,
\* memory and file hold the same emails but not the same access token.
C27_WitnessTokensDiffer ==
    /\ credFile.exists
    /\ KeySet(credFile.accounts) = KeySet(accounts)
    /\ credFile.accounts # accounts

\* C28: is_authenticated is true exactly when active_credentials is not
\* None, and a get_valid_token call that returned a token was made with
\* is_authenticated true; this in every state, those after a login whose
\* userinfo lookup gave "" among them.
C28_AuthenticatedIffCredentials ==
    /\ IsAuthenticated <=> ActiveCredentials # NoCreds
    /\ caller[1].pc = "returned" => IsAuthenticated

\* login() stored its credential under "": active_credentials is that
\* credential, is_authenticated is false, and get_valid_token returned its
\* token.
C28_WitnessEmptyEmail ==
    /\ activeEmail = ""
    /\ ActiveCredentials # NoCreds
    /\ ~IsAuthenticated
    /\ caller[1].pc = "returned"
    /\ caller[1].ret = ActiveCredentials.access_token

\* The ways a refresh fails: no refresh token (RuntimeError, with a
\* credential in hand), a non-2xx reply, a reply without access_token.
RefreshFailed(c) ==
    /\ c.pc = "raised"
    /\ c.key # None
    /\ c.exc \in {"RuntimeError", "HTTPStatusError", "KeyError"}

\* C29: a step in which get_valid_token ends on a failed refresh -- the
\* credential is expired and has no refresh token, or the token endpoint
\* answered non-2xx or without access_token -- raises and leaves accounts
\* (with every field of every credential), the active email and the file as
\* they were; a switch to an email that is not a key returns False and
\* leaves them as they were too, and only such a switch returns False.
C29_FailureChangesNothing ==
    [][ /\ (caller[1].pc = "posting" /\ caller'[1].pc # "posting"
              /\ caller'[1].reply.kind \in {"HTTPStatusError", "KeyError"})
            => caller'[1].pc = "raised" /\ caller'[1].exc = caller'[1].reply.kind
        /\ (caller[1].pc = "idle" /\ caller'[1].pc # "idle"
              /\ ActiveCredentials # NoCreds /\ IsExpired(ActiveCredentials, now)
              /\ ActiveCredentials.refresh_token = 0)
            => caller'[1].pc = "raised" /\ tokenPosts' = tokenPosts
        /\ (~RefreshFailed(caller[1]) /\ RefreshFailed(caller'[1]))
            => UNCHANGED <<accounts, activeEmail, credFile>>
        /\ (opLog' # opLog /\ opLog'.op = "switch")
            => /\ opLog'.result = "False" <=> opLog'.arg \notin KeySet(accounts)
               /\ opLog'.result = "False" => UNCHANGED <<accounts, activeEmail, credFile>>
      ]_vars

\* A refresh of an expired credential was answered 400: the call raised.
C29_Witness ==
    /\ caller[1].pc = "raised"
    /\ caller[1].exc = "HTTPStatusError"
    /\ caller[1].reply.status = 400
    /\ credFile.exists
    /\ IsExpired(ActiveCredentials, now)

\* The other two failures, and the switch that returned False on a store
\* with an account.
C29_WitnessNoRefreshToken ==
    /\ caller[1].pc = "raised" /\ caller[1].exc = "RuntimeError"
    /\ caller[1].key # None /\ tokenPosts = <<>>

C29_WitnessNoAccessToken ==
    caller[1].pc = "raised" /\ caller[1].exc = "KeyError"

C29_WitnessSwitch ==
    /\ opLog.op = "switch" /\ opLog.result = "False"
    /\ accounts # <<>> /\ Store = opLog.pre

----------------------------------------------------------------------------
(* Properties of the metrics files *)

IsPrefix(s, t) == Len(s) <= Len(t) /\ SubSeq(t, 1, Len(s)) = s

\* How many lines of a file are the line of event i
LinesOfEvent(file, i) == Cardinality({k \in DOMAIN file : file[k] = JsonLine(i)})

\* The events of the lines of a file, in file order
EventsIn(file) == [k \in DOMAIN file |-> file[k].ev]

LastOf(seq, n) ==
    IF n > 0 /\ n < Len(seq) THEN SubSeq(seq, Len(seq) - n + 1, Len(seq)) ELSE seq

\* C30: no step changes or removes a line of any file; the step in which a
\* record_* call on an enabled collector completes appends the line of its
\* event to the end of its own file and leaves the other files alone, and
\* the file then holds that line once and no other file holds it; a call on
\* a disabled collector and a call whose write failed put no line in any
\* file, and the failed call leaves the collector as it was, having logged
\* and not raised; read_*(limit) returns the events of the file in the
\* order of their lines, all of them for limit = 0 and the last `limit`
\* for limit > 0.
C30_AppendOnly ==
    [][ /\ \A p \in MetricsPaths : IsPrefix(metricsFiles[p], metricsFiles'[p])
        /\ \A i \in DOMAIN events :
             (events[i].state = "pending" /\ events'[i].state = "written") =>
                 /\ metricsFiles'[events[i].path] =
                        Append(metricsFiles[events[i].path], JsonLine(i))
                 /\ \A p \in MetricsPaths \ {events[i].path} :
                        metricsFiles'[p] = metricsFiles[p]
        /\ \A i \in DOMAIN events' : \A p \in MetricsPaths :
             LinesOfEvent(metricsFiles'[p], i) =
                 IF events'[i].state = "written" /\ p = events'[i].path THEN 1 ELSE 0
        /\ Len(events') > Len(events) =>
             /\ metricsFiles' = metricsFiles
             /\ events'[Len(events')].state \in {"pending", "failed", "AttributeError"}
             /\ events'[Len(events')].state = "failed" => writer' = writer
        /\ readResult' # readResult =>
             readResult'.lines =
                 LastOf(EventsIn(metricsFiles[readResult'.path]), readResult'.limit)
      ]_vars

\* Two events written to one file after a failed write and read back with
\* limit 1: the later one alone.
C30_Witness ==
    /\ Len(events) = 3
    /\ events[1].state = "failed"
    /\ events[2].state = "written" /\ events[3].state = "written"
    /\ events[2].path = events[3].path
    /\ Len(metricsFiles[events[2].path]) = 2
    /\ readResult.path = events[2].path
    /\ readResult.limit = 1
    /\ Len(readResult.lines) = 1

\* A call on the disabled collector between two written events.
C30_WitnessDisabled ==
    /\ Len(events) = 3
    /\ events[1].state = "written"
    /\ events[2].state = "AttributeError"
    /\ events[3].state = "written"

====
